---- MODULE Spec2Model ----
(***************************************************************************)
(* Model of the Cache class (frache): its warmup scheduler, its singleton   *)
(* lifecycle and its store operations.                                     *)
(*                                                                         *)
(* The Cache class is single-threaded JavaScript: every public method and  *)
(* every timer callback runs to its first `await` without interruption.    *)
(* An action of this model is one such uninterrupted run: a public call,   *)
(* a fire of the periodic interval, the settling of a task body together   *)
(* with the continuation it resumes, or a fire of a task's timeout timer.  *)
(* Event listeners are not modelled; `out` records what the last step      *)
(* returned and which events it handed to emitEvent.                       *)
(*                                                                         *)
(* The scheduler and the store operations do not touch each other's state; *)
(* each specification below exercises one of them and holds the other's    *)
(* variables at their constructor values.                                  *)
(***************************************************************************)
EXTENDS Integers, Sequences, FiniteSets, Bags, TLC

\* ------------------------------------------------------------------ bounds
MaxPriority == 1       \* priorities are 0..MaxPriority, or undefined
MaxExec == 2           \* executions (body or timer still alive) at one time
MaxCalls == 4          \* public calls made on the instance in one behaviour
MaxTimedCalls == 3     \* the same, in the behaviours checked for liveness
MaxStoreCalls == 3     \* store operations called (and lapses of time) in one behaviour
MaxOps == 2            \* store operations in flight at one time
MaxAmount == 5         \* the largest amount of one increment
MaxAttempts == 3       \* the largest `attempts` handed to retry

TaskIds == {"a", "b"}  \* the task ids in use; "" stands for no id
NoPriority == -1       \* `priority` is undefined
Priorities == 0..MaxPriority
OptPriorities == {NoPriority} \cup Priorities
Timeouts == {0, 1}     \* 0: `timeout` is absent (falsy); 1: a timeout is declared

\* a WarmupTask as far as the scheduler looks at it
TaskDefs == [id : TaskIds, priority : OptPriorities, timeout : Timeouts]

VARIABLES
    warmupTasks,          \* Map<string, WarmupTask>: a function on the registered ids
    warmupQueue,          \* WarmupTask[]: the pending queue
    isProcessingWarmup,   \* reentrancy flag of processWarmupQueue
    warmupInterval,       \* TRUE while the setInterval handle is set
    execs,                \* bag of executeWarmupTask activations still alive
    calls,                \* number of public calls made so far
    out                   \* what the last step returned and emitted

VARIABLES
    instance,             \* Cache.instance: 0 for null, else the number of the object
    created,              \* number of Cache objects constructed; the fields above are
                          \* those of the object constructed last
    stats,                \* CacheStats of that object
    redis,                \* the backing store: store key -> record
    now,                  \* the store's clock, in seconds
    ops,                  \* store operations in flight: call number -> activation
    hist                  \* store key -> what the last successful set of it supplied

VARIABLES
    retrying              \* the call of retry(fn, attempts, baseDelay) under way

schedVars == <<warmupTasks, warmupQueue, isProcessingWarmup, warmupInterval, execs>>
lifeVars == <<instance, created>>
storeVars == <<stats, redis, now, ops, hist>>
utilVars == <<retrying>>

vars == <<warmupTasks, warmupQueue, isProcessingWarmup, warmupInterval, execs, calls, out,
          instance, created, stats, redis, now, ops, hist, retrying>>

\* ------------------------------------------------------------------ events
\* emitEvent('warmup', key, undefined, {status, error})
WarmupEvent(status, key, error) ==
    [type |-> "warmup", status |-> status, key |-> key, error |-> error]

\* the observable outcome of one step
Out(op, id, ret, events) == [op |-> op, id |-> id, ret |-> ret, events |-> events]

\* ------------------------------------------------------------------ queue order
\* (t.priority || 0)
EffectivePriority(t) == IF t.priority = NoPriority THEN 0 ELSE t.priority

\* one insertion of the stable descending sort: t goes behind every element
\* whose priority is not lower than its own
RECURSIVE InsertByPriority(_, _)
InsertByPriority(sorted, t) ==
    IF sorted = <<>> THEN <<t>>
    ELSE IF EffectivePriority(Head(sorted)) >= EffectivePriority(t)
         THEN <<Head(sorted)>> \o InsertByPriority(Tail(sorted), t)
         ELSE <<t>> \o sorted

\* mutant: a sort that is not stable, a task goes in front of its equals
RECURSIVE InsertBeforeEquals(_, _)
InsertBeforeEquals(sorted, t) ==
    IF sorted = <<>> THEN <<t>>
    ELSE IF EffectivePriority(Head(sorted)) > EffectivePriority(t)
         THEN <<Head(sorted)>> \o InsertBeforeEquals(Tail(sorted), t)
         ELSE <<t>> \o sorted

RECURSIVE SortByPriority_TiesReversed(_)
SortByPriority_TiesReversed(q) ==
    IF q = <<>> THEN <<>>
    ELSE InsertBeforeEquals(SortByPriority_TiesReversed(SubSeq(q, 1, Len(q) - 1)), q[Len(q)])

\* mutant: the queue is left in arrival order
SortByPriority_Unsorted(q) == q

\* warmupQueue.sort((a, b) => (b.priority || 0) - (a.priority || 0)), a stable sort
RECURSIVE SortByPriority(_)
SortByPriority(q) ==
    IF q = <<>> THEN <<>>
    ELSE InsertByPriority(SortByPriority(SubSeq(q, 1, Len(q) - 1)), q[Len(q)])

\* mutant: the queue is not filtered
WithoutId_Keep(q, taskId) == q

\* warmupQueue.filter(task => task.id !== taskId)
RECURSIVE WithoutId(_, _)
WithoutId(q, taskId) ==
    IF q = <<>> THEN <<>>
    ELSE IF Head(q).id = taskId THEN WithoutId(Tail(q), taskId)
         ELSE <<Head(q)>> \o WithoutId(Tail(q), taskId)

\* mutant: the already-queued check is missing
IsQueued_Never(q, taskId) == FALSE

\* warmupQueue.some(t => t.id === taskId)
IsQueued(q, taskId) == \E i \in 1..Len(q) : q[i].id = taskId

\* ------------------------------------------------------------------ executions
\* An activation of executeWarmupTask:
\*   origin   "drain" (awaited by processWarmupQueue) or "run" (by runWarmupTask)
\*   wait     "pending" while executeWarmupTask awaits the body or the race
\*   body     "running" until the promise of task.execute() settles
\*   timer    "none", or "armed" until the setTimeout of the race fires
\*   emitted  the lifecycle statuses this activation has emitted so far
ExecStart(task, origin) ==
    [id |-> task.id, origin |-> origin, wait |-> "pending", body |-> "running",
     timer |-> IF task.timeout # 0 THEN "armed" ELSE "none",
     emitted |-> <<"started">>]

\* an activation is forgotten once nothing of it is left to happen
Alive(e) == e.wait = "pending" \/ e.body = "running" \/ e.timer = "armed"

Replace(bag, old, new) ==
    IF Alive(new) THEN (bag (-) SetToBag({old})) (+) SetToBag({new})
    ELSE bag (-) SetToBag({old})

Statuses(events) == [i \in DOMAIN events |-> events[i].status]

\* ================================================================== the store
\* ------------------------------------------------------------------ key codec
\* A key, a namespace and a store key are the sequences of their ':'-separated
\* segments; << >> is the empty string.
KeyPrefix == <<"frache">>          \* config.keyPrefix
DefaultNamespace == <<"cache">>    \* config.defaultNamespace
NoNamespace == << >>               \* options.namespace is absent

\* generateCacheKey: the truthy parts joined with ':'
GenerateCacheKey(key, namespace, keyPrefix) == keyPrefix \o namespace \o key

\* `${cacheKey}:meta`
MetaKeyOf(cacheKey) == cacheKey \o <<"meta">>

\* generateScanPattern: the pattern behind prefix and namespace
GenerateScanPattern(pattern, namespace, keyPrefix) == keyPrefix \o namespace \o pattern

\* metaKey.replace(':meta', ''): the first occurrence of ':meta' is cut out
ReplaceFirstMeta(k) ==
    LET found == {i \in 2..Len(k) : k[i] = "meta"} IN
    IF found = {} THEN k
    ELSE LET i == CHOOSE x \in found : \A y \in found : x <= y
         IN  SubSeq(k, 1, i - 1) \o SubSeq(k, i + 1, Len(k))

\* MATCH of SCAN for a pattern holding one '*': the segments before and behind
\* the star are literal, the star stands for at least one segment
Matches(k, pattern) ==
    LET star == CHOOSE i \in DOMAIN pattern : pattern[i] = "*"
        pre == SubSeq(pattern, 1, star - 1)
        post == SubSeq(pattern, star + 1, Len(pattern))
    IN  /\ Len(k) >= Len(pre) + Len(post) + 1
        /\ SubSeq(k, 1, Len(pre)) = pre
        /\ SubSeq(k, Len(k) - Len(post) + 1, Len(k)) = post

\* ------------------------------------------------------------------ value codec
\* JavaScript values: strings, numbers, null and objects {k: v}
Str(s) == [t |-> "string", s |-> s]
Num(n) == [t |-> "number", n |-> n]
Null == [t |-> "null"]
Obj(k, v) == [t |-> "object", k |-> k, v |-> v]
Bool(b) == [t |-> "boolean", b |-> b]
Undefined == [t |-> "undefined"]

\* a string of this many bytes stands behind the text "large"
CompressThreshold == 1024
LargeText == "large"
ByteLength(text) == IF text = LargeText THEN CompressThreshold + 1 ELSE Len(text)

\* JSON.stringify
RECURSIVE Stringify(_)
Stringify(v) ==
    CASE v.t = "string" -> "\"" \o v.s \o "\""
      [] v.t = "number" -> ToString(v.n)
      [] v.t = "null" -> "null"
      [] v.t = "boolean" -> IF v.b THEN "true" ELSE "false"
      [] v.t = "object" -> "{\"" \o v.k \o "\":" \o Stringify(v.v) \o "}"

\* the values whose JSON text the stored texts can spell
JsonLeaves == {Null, Num(1), Num(42), Str("x"), Bool(TRUE)}
JsonValues ==
    JsonLeaves \cup {Obj("a", v) : v \in JsonLeaves}
               \cup {Obj("a", Obj("b", v)) : v \in JsonLeaves}

SyntaxError == [t |-> "throw", s |-> "SyntaxError"]

\* JSON.parse
JsonParse(text) ==
    IF \E v \in JsonValues : Stringify(v) = text
    THEN CHOOSE v \in JsonValues : Stringify(v) = text
    ELSE SyntaxError

\* serialize: a string passes through, anything else is stringified
Serialize(v) == IF v.t = "string" THEN v.s ELSE Stringify(v)

\* deserialize: the parsed text, or the text itself when it does not parse
Deserialize(text) == IF JsonParse(text) = SyntaxError THEN Str(text) ELSE JsonParse(text)

\* shouldCompress(data, threshold = 1024)
ShouldCompress(text) == ByteLength(text) > CompressThreshold

\* what the store holds under a string key: a text, gzipped or not
Plain(text) == [text |-> text, gz |-> FALSE]
Compress(text) == [text |-> text, gz |-> TRUE]

DecompressError == [t |-> "throw", s |-> "Failed to decompress data"]

\* decompress: gunzip fails on data that is not gzipped
Decompress(payload) == IF payload.gz THEN Str(payload.text) ELSE DecompressError

\* the string that redis.get hands back for a payload
AsString(payload) == IF payload.gz THEN "gzip(" \o payload.text \o ")" ELSE payload.text

\* ------------------------------------------------------------------ the backing store
\* A record of the store: a string with its payload or a hash with its
\* fields, and the time it expires at (Forever: it has no TTL).
Forever == -1
StringRec(payload, exp) == [kind |-> "string", payload |-> payload, exp |-> exp]
HashRec(fields, exp) == [kind |-> "hash", fields |-> fields, exp |-> exp]

Put(f, k, v) == [x \in DOMAIN f \cup {k} |-> IF x = k THEN v ELSE f[x]]
Drop(f, keys) == [x \in DOMAIN f \ keys |-> f[x]]

\* replies of the store
Nil == [t |-> "nil"]
Ok == [t |-> "status", s |-> "OK"]
WrongType == [t |-> "error", s |-> "WRONGTYPE"]
Integer(n) == [t |-> "int", n |-> n]
Bulk(payload) == [t |-> "bulk", payload |-> payload]
Fields(compressed, tags) == [t |-> "hash", n |-> 2, compressed |-> compressed, tags |-> tags]
NoFields == [t |-> "hash", n |-> 0, compressed |-> "undefined", tags |-> {}]

\* mutant: NX is not honoured
RedisSet_IgnoresNx(r, k, payload, ex, mode, t) ==
    IF mode = "XX" /\ k \notin DOMAIN r
    THEN [redis |-> r, reply |-> Nil]
    ELSE [redis |-> Put(r, k, StringRec(payload, IF ex > 0 THEN t + ex ELSE Forever)),
          reply |-> Ok]

\* mutant: a SET that is refused has written its payload all the same
RedisSet_RefusedWrites(r, k, payload, ex, mode, t) ==
    [redis |-> Put(r, k, StringRec(payload, IF ex > 0 THEN t + ex ELSE Forever)),
     reply |-> IF (mode = "NX" /\ k \in DOMAIN r) \/ (mode = "XX" /\ k \notin DOMAIN r)
               THEN Nil ELSE Ok]

\* SET k payload [EX ex] [NX|XX] at time t; ex = 0: no EX argument
RedisSet(r, k, payload, ex, mode, t) ==
    IF (mode = "NX" /\ k \in DOMAIN r) \/ (mode = "XX" /\ k \notin DOMAIN r)
    THEN [redis |-> r, reply |-> Nil]
    ELSE [redis |-> Put(r, k, StringRec(payload, IF ex > 0 THEN t + ex ELSE Forever)),
          reply |-> Ok]

\* GET k
RedisGet(r, k) ==
    IF k \notin DOMAIN r THEN Nil
    ELSE IF r[k].kind # "string" THEN WrongType
    ELSE Bulk(r[k].payload)

\* HGETALL k: the fields, or an empty object when there is no such key
RedisHgetall(r, k) ==
    IF k \notin DOMAIN r THEN NoFields
    ELSE IF r[k].kind # "hash" THEN WrongType
    ELSE r[k].fields

\* HSET k fields: a new hash has no TTL, an existing one keeps its own
RedisHset(r, k, fields) ==
    IF k \in DOMAIN r /\ r[k].kind # "hash"
    THEN [redis |-> r, reply |-> WrongType]
    ELSE [redis |-> Put(r, k, HashRec(fields, IF k \in DOMAIN r THEN r[k].exp ELSE Forever)),
          reply |-> Integer(IF k \in DOMAIN r THEN 0 ELSE 2)]

\* EXPIRE k ttl at time t
RedisExpire(r, k, ttl, t) ==
    IF k \notin DOMAIN r THEN [redis |-> r, reply |-> Integer(0)]
    ELSE IF ttl <= 0 THEN [redis |-> Drop(r, {k}), reply |-> Integer(1)]
    ELSE [redis |-> Put(r, k, [r[k] EXCEPT !.exp = t + ttl]), reply |-> Integer(1)]

\* PERSIST k
RedisPersist(r, k) ==
    IF k \in DOMAIN r /\ r[k].exp # Forever
    THEN [redis |-> Put(r, k, [r[k] EXCEPT !.exp = Forever]), reply |-> Integer(1)]
    ELSE [redis |-> r, reply |-> Integer(0)]

\* the integer a string record spells, for INCRBY
NotAnInteger == [t |-> "error", s |-> "ERR value is not an integer or out of range"]
CounterRange == (0 - MaxAmount * (MaxStoreCalls + 1))..(MaxAmount * (MaxStoreCalls + 1))
IntegerOf(payload) ==
    IF ~payload.gz /\ \E n \in CounterRange : ToString(n) = payload.text
    THEN Integer(CHOOSE n \in CounterRange : ToString(n) = payload.text)
    ELSE NotAnInteger

\* mutant: the amount replaces the value instead of being added to it
RedisIncrby_Overwrites(r, k, amount) ==
    [redis |-> Put(r, k, StringRec(Plain(ToString(amount)), Forever)),
     reply |-> Integer(amount)]

\* INCRBY k amount: an absent key counts from 0, the TTL of the key is kept
RedisIncrby(r, k, amount) ==
    IF k \notin DOMAIN r
    THEN [redis |-> Put(r, k, StringRec(Plain(ToString(amount)), Forever)),
          reply |-> Integer(amount)]
    ELSE IF r[k].kind # "string" THEN [redis |-> r, reply |-> WrongType]
    ELSE IF IntegerOf(r[k].payload) = NotAnInteger THEN [redis |-> r, reply |-> NotAnInteger]
    ELSE LET sum == IntegerOf(r[k].payload).n + amount
         IN  [redis |-> Put(r, k, [r[k] EXCEPT !.payload = Plain(ToString(sum))]),
              reply |-> Integer(sum)]

\* DEL keys...: the number of keys that were there
RedisDel(r, keys) ==
    [redis |-> Drop(r, keys), reply |-> Integer(Cardinality(keys \cap DOMAIN r))]

\* SCAN MATCH pattern, followed to cursor '0'
RedisScan(r, pattern) == {k \in DOMAIN r : Matches(k, pattern)}

\* the records that have not expired at time t
Live(r, t) == [k \in {x \in DOMAIN r : r[x].exp = Forever \/ r[x].exp > t} |-> r[k]]

\* ------------------------------------------------------------------ options
DefaultTtl == 3600                 \* config.defaultTtl, in seconds
NoTtl == 0                         \* options.ttl is absent
NoTags == [given |-> FALSE, tags |-> {}]
Tags(S) == [given |-> TRUE, tags |-> S]
\* the options of a call; what an operation does not read stays at its default
Options(namespace, ttl, tags, mode, refreshTtl) ==
    [namespace |-> namespace, ttl |-> ttl, tags |-> tags, mode |-> mode,
     compress |-> "undefined", refreshTtl |-> refreshTtl, defaultValue |-> Undefined]

NoOptions == Options(NoNamespace, NoTtl, NoTags, "none", FALSE)

\* the same options with {defaultValue: value}
WithDefault(opt, value) == [opt EXCEPT !.defaultValue = value]

\* `option ?? default`
Nullish(option, default) == IF option = "undefined" THEN default ELSE option

\* options.namespace || this.config.defaultNamespace
NamespaceOf(opt) == IF opt.namespace = NoNamespace THEN DefaultNamespace ELSE opt.namespace

\* validateKey. << >> is a key that is undefined, EmptyKey the key '', LongKey
\* stands for a key of MaxKeyLength + 1 characters and ControlKey holds a TAB.
MaxKeyLength == 250
EmptyKey == <<"">>
LongKey == <<"long">>
ControlKey == <<"a\tb">>

\* key.length: the segments and the ':' between them
RECURSIVE KeyLength(_)
KeyLength(key) ==
    IF key = LongKey THEN MaxKeyLength + 1
    ELSE IF key = << >> THEN 0
    ELSE Len(Head(key)) + (IF Len(key) > 1 THEN 1 + KeyLength(Tail(key)) ELSE 0)

\* /[\r\n\t\0]/.test(key), as far as the keys in use go
HasControl(key) == \E i \in DOMAIN key : key[i] = ControlKey[1]

KeyError == [t |-> "throw", s |-> "Cache key must be a non-empty string"]
KeyTooLong == [t |-> "throw", s |-> "Cache key is too long (max 250 characters)"]
KeyInvalidChars == [t |-> "throw", s |-> "Cache key contains invalid characters"]

ValidKey(key) ==
    key \notin {<< >>, EmptyKey} /\ KeyLength(key) <= MaxKeyLength /\ ~HasControl(key)

\* the error validateKey throws for a key it refuses
ValidationError(key) ==
    IF key \in {<< >>, EmptyKey} THEN KeyError
    ELSE IF KeyLength(key) > MaxKeyLength THEN KeyTooLong
    ELSE KeyInvalidChars

\* emitEvent(type, key, namespace, data)
StoreEvent(type, key) == [type |-> type, status |-> "none", key |-> key, error |-> "none"]

\* ------------------------------------------------------------------ activations
\* An operation in flight:
\*   op, key, value, opt   the method and its arguments
\*   pc                    the await it is suspended at
\*   loc                   the local variables that live across awaits
\*   run                   the method that is executing (getOrSet runs get and set)
\*   waits, ticket         what the await waits for: a reply of the store (replies
\*                         come in the order of the commands) or something local
\*   at, solo, pre         the time of the call, whether no other operation
\*                         overlapped it, and the store as it was at the call
\*   preStats              the statistics as they were at the call
Pending == [t |-> "pending"]

Activation(op, key, value, opt) ==
    [op |-> op, run |-> IF op = "getOrSet" THEN "get" ELSE op,
     key |-> key, value |-> value, opt |-> opt, pc |-> "call",
     loc |-> [reply |-> Nil, metadata |-> NoFields, compressed |-> FALSE,
              found |-> {}, keys |-> {}, existing |-> Undefined, factory |-> 0,
              writes |-> 0],
     waits |-> "store", ticket |-> 0,
     at |-> now, solo |-> (DOMAIN ops = {}), pre |-> redis, preStats |-> stats]

\* the state an operation works on, and what one run of it yields
World == [redis |-> redis, stats |-> stats, hist |-> hist]
Going(o, w) ==
    [o |-> [o EXCEPT !.waits = "store"], w |-> w, done |-> FALSE, ret |-> Pending,
     events |-> << >>]
GoingLocal(o, w) ==
    [o |-> [o EXCEPT !.waits = "local"], w |-> w, done |-> FALSE, ret |-> Pending,
     events |-> << >>]
Done(o, w, ret, events) == [o |-> o, w |-> w, done |-> TRUE, ret |-> ret, events |-> events]
\* mutant: the counter is taken down
Bump_Down(w, field) == [w EXCEPT !.stats[field] = @ - 1]

\* this.stats.<field>++
Bump(w, field) == [w EXCEPT !.stats[field] = @ + 1]

\* the catch block of a public method: stats.errors++, an 'error' event, re-throw
Failed(o, w, error) == Done(o, Bump(w, "errors"), error, <<StoreEvent("error", o.key)>>)

CacheKeyOf(o) == GenerateCacheKey(o.key, NamespaceOf(o.opt), KeyPrefix)

\* a write command has been issued
Wrote(o, pc, reply) == [o EXCEPT !.pc = pc, !.loc.reply = reply, !.loc.writes = @ + 1]

\* ------------------------------------------------------------------ set
\* const ttl = parseTtl(options.ttl) || this.config.defaultTtl
TtlOf(o) == IF o.opt.ttl # NoTtl THEN o.opt.ttl ELSE DefaultTtl

\* {compressed: isCompressed, tags: options.tags || []} as the hash keeps it
MetaFields(isCompressed, tags) == Fields(IF isCompressed THEN "true" ELSE "false", tags)

\* set from `const args` to the await of redis.set
SetSend(o, w, t, payload) ==
    LET k == CacheKeyOf(o)
        res == RedisSet(w.redis, k, payload, IF TtlOf(o) > 0 THEN TtlOf(o) ELSE 0,
                        o.opt.mode, t)
    IN  Going([Wrote(o, "set", res.reply) EXCEPT !.loc.compressed = payload.gz],
              [w EXCEPT !.redis = res.redis,
                        !.hist = IF res.reply = Ok
                                 THEN Put(@, k, [value |-> o.value, tags |-> o.opt.tags.tags,
                                                 namespace |-> NamespaceOf(o.opt)])
                                 ELSE @])

SetBegin(o, w, t) ==
    IF ~ValidKey(o.key) THEN Failed(o, w, ValidationError(o.key))
    ELSE IF Nullish(o.opt.compress, "true") = "true" /\ ShouldCompress(Serialize(o.value))
    THEN GoingLocal([o EXCEPT !.pc = "compress"], w)
    ELSE SetSend(o, w, t, Plain(Serialize(o.value)))

SetDone(o, w) == Done(o, w, Bool(TRUE), <<StoreEvent("set", o.key)>>)

SetContinue(o, w, t) ==
    LET m == MetaKeyOf(CacheKeyOf(o)) IN
    CASE o.pc = "compress" -> SetSend(o, w, t, Compress(Serialize(o.value)))
      [] o.pc = "set" ->
            IF o.loc.reply # Ok THEN Done(o, w, Bool(FALSE), << >>)
            ELSE IF o.loc.compressed \/ o.opt.tags.given
            THEN LET res == RedisHset(w.redis, m, MetaFields(o.loc.compressed, o.opt.tags.tags))
                 IN  Going(Wrote(o, "hset", res.reply),
                           [Bump(w, "sets") EXCEPT !.redis = res.redis])
            ELSE SetDone(o, Bump(w, "sets"))
      [] o.pc = "hset" ->
            IF o.loc.reply = WrongType THEN Failed(o, w, WrongType)
            ELSE IF TtlOf(o) > 0
            THEN LET res == RedisExpire(w.redis, m, TtlOf(o), t)
                 IN  Going(Wrote(o, "expire", res.reply), [w EXCEPT !.redis = res.redis])
            ELSE SetDone(o, w)
      [] o.pc = "expire" -> SetDone(o, w)

\* ------------------------------------------------------------------ get
GetBegin(o, w, t) ==
    IF ~ValidKey(o.key) THEN Failed(o, w, ValidationError(o.key))
    ELSE Going([o EXCEPT !.pc = "read",
                         !.loc.reply = RedisGet(w.redis, CacheKeyOf(o)),
                         !.loc.metadata = RedisHgetall(w.redis, MetaKeyOf(CacheKeyOf(o)))], w)

GetHit(o, w, text) == Done(o, w, Deserialize(text), <<StoreEvent("hit", o.key)>>)

\* get from `let finalValue = value`
GetDecode(o, w) ==
    IF o.loc.metadata.compressed = "true"
    THEN GoingLocal([o EXCEPT !.pc = "decompress"], w)
    ELSE GetHit(o, w, AsString(o.loc.reply.payload))

GetContinue(o, w, t) ==
    LET k == CacheKeyOf(o) IN
    CASE o.pc = "read" ->
            IF o.loc.reply = WrongType \/ o.loc.metadata = WrongType
            THEN Failed(o, w, WrongType)
            ELSE IF o.loc.reply = Nil
            THEN Done(o, Bump(w, "misses"),
                      IF o.opt.defaultValue = Undefined THEN Null ELSE o.opt.defaultValue,
                      <<StoreEvent("miss", o.key)>>)
            ELSE IF o.opt.refreshTtl /\ o.opt.ttl # NoTtl /\ o.opt.ttl > 0
            THEN LET res == RedisExpire(w.redis, k, o.opt.ttl, t)
                 IN  Going(Wrote(o, "refresh", o.loc.reply),
                           [Bump(w, "hits") EXCEPT !.redis = res.redis])
            ELSE GetDecode(o, Bump(w, "hits"))
      [] o.pc = "refresh" ->
            IF o.loc.metadata.n > 0
            THEN LET res == RedisExpire(w.redis, MetaKeyOf(k), o.opt.ttl, t)
                 IN  Going(Wrote(o, "refreshmeta", o.loc.reply), [w EXCEPT !.redis = res.redis])
            ELSE GetDecode(o, w)
      [] o.pc = "refreshmeta" -> GetDecode(o, w)
      [] o.pc = "decompress" ->
            IF Decompress(o.loc.reply.payload) = DecompressError
            THEN Failed(o, w, DecompressError)
            ELSE GetHit(o, w, Decompress(o.loc.reply.payload).s)

\* ------------------------------------------------------------------ del
\* del without a pattern: cacheKey and its metadata key in one DEL
DelBegin(o, w, t) ==
    IF ~ValidKey(o.key) THEN Failed(o, w, ValidationError(o.key))
    ELSE LET res == RedisDel(w.redis, {CacheKeyOf(o), MetaKeyOf(CacheKeyOf(o))})
         IN  Going(Wrote(o, "del", res.reply), [w EXCEPT !.redis = res.redis])

DelContinue(o, w, t) ==
    IF o.loc.reply.n > 0
    THEN Done(o, Bump(w, "deletes"), Num(o.loc.reply.n), <<StoreEvent("delete", o.key)>>)
    ELSE Done(o, w, Num(0), << >>)

\* ------------------------------------------------------------------ clear
\* the metadata key the loop of clearByTags looks at next
NextFound(o) == CHOOSE m \in o.loc.found : TRUE

\* const originalKey = metaKey.replace(':meta', '')
OriginalKey(metaKey) == ReplaceFirstMeta(metaKey)

\* clearByTags at the head of its loop: read the next metadata key, or leave
\* the loop and delete what was collected
TagLoop(o, w) ==
    IF o.loc.found # {}
    THEN Going([o EXCEPT !.pc = "tagread",
                         !.loc.metadata = RedisHgetall(w.redis, NextFound(o))], w)
    ELSE IF o.loc.keys = {} THEN Done(o, w, Num(0), << >>)
    ELSE LET res == RedisDel(w.redis, o.loc.keys)
         IN  Going(Wrote(o, "tagdel", res.reply), [w EXCEPT !.redis = res.redis])

ClearBegin(o, w, t) ==
    LET pattern == GenerateScanPattern(<<"*">>, NamespaceOf(o.opt), KeyPrefix)
        metaPattern == GenerateScanPattern(<<"*", "meta">>, DefaultNamespace, KeyPrefix)
    IN  IF o.opt.tags.given /\ o.opt.tags.tags # {}
        THEN Going([o EXCEPT !.pc = "tagscan", !.loc.found = RedisScan(w.redis, metaPattern)], w)
        ELSE Going([o EXCEPT !.pc = "scan", !.loc.found = RedisScan(w.redis, pattern)], w)

ClearContinue(o, w, t) ==
    CASE o.pc = "tagscan" -> TagLoop(o, w)
      [] o.pc = "tagread" ->
            LET m == NextFound(o)
                keyTags == IF o.loc.metadata.n > 0 THEN o.loc.metadata.tags ELSE {}
            IN  IF o.loc.metadata = WrongType THEN Failed(o, w, WrongType)
                ELSE TagLoop([o EXCEPT !.loc.found = @ \ {m},
                                       !.loc.keys = IF o.opt.tags.tags \cap keyTags # {}
                                                    THEN @ \cup {OriginalKey(m), m} ELSE @], w)
      [] o.pc = "tagdel" -> Done(o, w, Num(o.loc.reply.n), << >>)
      [] o.pc = "scan" ->
            IF o.loc.found = {} THEN Done(o, w, Num(0), << >>)
            ELSE LET res == RedisDel(w.redis, o.loc.found \cup {MetaKeyOf(k) : k \in o.loc.found})
                 IN  Going(Wrote(o, "cleardel", res.reply), [w EXCEPT !.redis = res.redis])
      [] o.pc = "cleardel" -> Done(o, w, Num(o.loc.reply.n), <<StoreEvent("clear", << >>)>>)

\* ------------------------------------------------------------------ expire, persist
\* AdvancedCache.expire(key, ttl): the ttl travels in options.ttl here
ExpireBegin(o, w, t) ==
    LET res == RedisExpire(w.redis, CacheKeyOf(o), o.opt.ttl, t)
    IN  Going(Wrote(o, "expire", res.reply), [w EXCEPT !.redis = res.redis])

\* AdvancedCache.persist(key)
PersistBegin(o, w, t) ==
    LET res == RedisPersist(w.redis, CacheKeyOf(o))
    IN  Going(Wrote(o, "persist", res.reply), [w EXCEPT !.redis = res.redis])

\* return result === 1
TtlContinue(o, w, t) == Done(o, w, Bool(o.loc.reply.n = 1), << >>)

\* ------------------------------------------------------------------ increment, decrement
\* the sum of the amounts added to store key k so far
SumOf(h, k) == IF k \in DOMAIN h /\ h[k].value.t = "number" THEN h[k].value.n ELSE 0

\* AdvancedCache.increment(key, amount, options) to the await of redis.incrby
IncrementBegin(o, w, t) ==
    LET k == CacheKeyOf(o)
        res == RedisIncrby(w.redis, k, o.value.n)
    IN  Going(Wrote(o, "incrby", res.reply),
              [w EXCEPT !.redis = res.redis,
                        !.hist = IF res.reply.t = "int"
                                 THEN Put(@, k, [value |-> Num(SumOf(@, k) + o.value.n),
                                                 tags |-> {},
                                                 namespace |-> NamespaceOf(o.opt)])
                                 ELSE @])

\* increment has no try/catch: a rejection of the store leaves it as it is
IncrementContinue(o, w, t) ==
    CASE o.pc = "incrby" ->
            IF o.loc.reply.t = "error" THEN Done(o, w, o.loc.reply, << >>)
            ELSE IF TtlOf(o) > 0
            THEN LET res == RedisExpire(w.redis, CacheKeyOf(o), TtlOf(o), t)
                 IN  Going(Wrote(o, "expire", o.loc.reply), [w EXCEPT !.redis = res.redis])
            ELSE Done(o, w, Num(o.loc.reply.n), << >>)
      [] o.pc = "expire" -> Done(o, w, Num(o.loc.reply.n), << >>)

\* ------------------------------------------------------------------ getOrSet
FactoryError == [t |-> "throw", s |-> "factory"]

\* mutant: the factory is called whatever get returned
GetOrSetAfter_AlwaysFactory(res) ==
    IF ~res.done \/ res.ret.t \in {"throw", "error"} THEN res
    ELSE IF res.o.run = "set" THEN [res EXCEPT !.ret = res.o.value]
    ELSE [GoingLocal([res.o EXCEPT !.run = "factory", !.pc = "factory",
                                   !.loc.existing = res.ret, !.loc.factory = @ + 1],
                     res.w) EXCEPT !.events = res.events]

\* mutant: a caller that misses while a factory of the same key is running
\* does not call the factory itself
GetOrSetAfter_SingleFlight(res) ==
    IF ~res.done \/ res.ret.t \in {"throw", "error"} THEN res
    ELSE IF res.o.run = "set" THEN [res EXCEPT !.ret = res.o.value]
    ELSE IF res.ret # Null THEN res
    ELSE IF \E j \in DOMAIN ops : ops[j].pc = "factory" /\ ops[j].key = res.o.key THEN res
    ELSE [GoingLocal([res.o EXCEPT !.run = "factory", !.pc = "factory",
                                   !.loc.existing = res.ret, !.loc.factory = @ + 1],
                     res.w) EXCEPT !.events = res.events]

\* what is left of getOrSet when the method it runs has returned or thrown:
\* a thrown error leaves getOrSet, a non-null `existing` is returned, a null
\* one calls the factory, and after set the value of the factory is returned
GetOrSetAfter(res) ==
    IF ~res.done \/ res.ret.t \in {"throw", "error"} THEN res
    ELSE IF res.o.run = "set" THEN [res EXCEPT !.ret = res.o.value]
    ELSE IF res.ret # Null THEN res
    ELSE [GoingLocal([res.o EXCEPT !.run = "factory", !.pc = "factory",
                                   !.loc.existing = res.ret, !.loc.factory = @ + 1],
                     res.w) EXCEPT !.events = res.events]

\* ------------------------------------------------------------------ one run of an operation
\* a public method from its call to its first await
Begin(o, w, t) ==
    LET res == CASE o.run = "set" -> SetBegin(o, w, t)
                 [] o.run = "get" -> GetBegin(o, w, t)
                 [] o.run = "del" -> DelBegin(o, w, t)
                 [] o.run = "clear" -> ClearBegin(o, w, t)
                 [] o.run = "expire" -> ExpireBegin(o, w, t)
                 [] o.run = "persist" -> PersistBegin(o, w, t)
                 [] o.run = "increment" -> IncrementBegin(o, w, t)
    IN  IF o.op = "getOrSet" THEN GetOrSetAfter(res) ELSE res

\* an operation from the await it is suspended at to its next await or its end
Continue(o, w, t) ==
    LET res == CASE o.run = "set" -> SetContinue(o, w, t)
                 [] o.run = "get" -> GetContinue(o, w, t)
                 [] o.run = "del" -> DelContinue(o, w, t)
                 [] o.run = "clear" -> ClearContinue(o, w, t)
                 [] o.run \in {"expire", "persist"} -> TtlContinue(o, w, t)
                 [] o.run = "increment" -> IncrementContinue(o, w, t)
    IN  IF o.op = "getOrSet" THEN GetOrSetAfter(res) ELSE res

\* getOrSet when the promise of factory() settles: set(key, value, options)
\* is called with its value, a rejection leaves getOrSet as it is
FactoryContinue(o, w, t, outcome) ==
    IF outcome = FactoryError THEN Done(o, w, FactoryError, << >>)
    ELSE GetOrSetAfter(SetBegin([o EXCEPT !.run = "set", !.value = outcome], w, t))

\* ------------------------------------------------------------------ construction
\* a boolean option of CacheConfig as the caller passes it
BoolOptions == {"undefined", "false", "true"}

\* `option || default`: a falsy option yields the default
OrDefault(option, default) == IF option \in {"undefined", "false"} THEN default ELSE option

ZeroStats == [hits |-> 0, misses |-> 0, sets |-> 0, deletes |-> 0, errors |-> 0]

\* the fields of a Cache object when its constructor returns
NewCache(enableWarmup) ==
    [warmupTasks |-> << >>, warmupQueue |-> << >>, isProcessingWarmup |-> FALSE,
     warmupInterval |-> (OrDefault(enableWarmup, "true") = "true"),
     stats |-> ZeroStats]

\* no call of retry made yet
NotRetrying ==
    [pc |-> "idle", attempts |-> 0, baseDelay |-> 0, i |-> 0, lastError |-> "undefined",
     settled |-> "undefined", outcomes |-> << >>, waited |-> << >>]

\* the object constructed by the first getInstance(config), nothing stored yet
Constructed(enableWarmup) ==
    LET c == NewCache(enableWarmup) IN
    /\ warmupTasks = c.warmupTasks
    /\ warmupQueue = c.warmupQueue
    /\ isProcessingWarmup = c.isProcessingWarmup
    /\ warmupInterval = c.warmupInterval
    /\ stats = c.stats
    /\ execs = EmptyBag
    /\ instance = 1
    /\ created = 1
    /\ redis = << >>
    /\ now = 0
    /\ ops = << >>
    /\ hist = << >>
    /\ calls = 0
    /\ retrying = NotRetrying

Init ==
    /\ Constructed("undefined")
    /\ out = Out("new", "", "void", << >>)

\* the object constructed with {enableWarmup: false}
InitNoWarmup ==
    /\ Constructed("false")
    /\ out = Out("new", "", "void", << >>)

\* ------------------------------------------------------------------ store steps
\* the ticket of the command issued last
LastTicket(f) ==
    LET tickets == {f[i].ticket : i \in DOMAIN f} \cup {0}
    IN  CHOOSE x \in tickets : \A y \in tickets : y <= x

\* the outcome of one run of operation id, next to the operations `others`
StoreApply(id, others, res) ==
    /\ ops' = IF res.done THEN others
              ELSE Put(others, id,
                       [res.o EXCEPT !.ticket = IF res.o.waits = "store"
                                                THEN LastTicket(others) + 1 ELSE 0])
    /\ redis' = res.w.redis
    /\ stats' = res.w.stats
    /\ hist' = res.w.hist
    /\ out' = Out(IF res.done THEN res.o.op ELSE "await", res.o.key, res.ret, res.events)
    /\ UNCHANGED <<schedVars, lifeVars, now, utilVars>>

\* a call of a public method of the store side
StoreCall(a) ==
    /\ calls < MaxStoreCalls
    /\ calls' = calls + 1
    /\ Cardinality(DOMAIN ops) < MaxOps
    /\ StoreApply(calls + 1, [i \in DOMAIN ops |-> [ops[i] EXCEPT !.solo = FALSE]],
                  Begin(a, World, now))

Set(key, value, opt) == StoreCall(Activation("set", key, value, opt))
Get(key, opt) == StoreCall(Activation("get", key, Undefined, opt))
Del(key, opt) == StoreCall(Activation("del", key, Undefined, opt))
Clear(opt) == StoreCall(Activation("clear", << >>, Undefined, opt))
Expire(key, opt) == StoreCall(Activation("expire", key, Undefined, opt))
Persist(key, opt) == StoreCall(Activation("persist", key, Undefined, opt))
GetOrSet(key, opt) == StoreCall(Activation("getOrSet", key, Undefined, opt))
Increment(key, amount, opt) == StoreCall(Activation("increment", key, Num(amount), opt))
\* return this.increment(key, -amount, options)
Decrement(key, amount, opt) ==
    StoreCall([Activation("increment", key, Num(0 - amount), opt) EXCEPT !.op = "decrement"])

\* the reply an operation waits for arrives (the replies of the store come in
\* the order of its commands), or its compress/decompress has finished
StoreResume(id) ==
    /\ id \in DOMAIN ops
    /\ ops[id].pc # "factory"
    /\ ops[id].waits = "store" =>
          \A j \in DOMAIN ops : ops[j].ticket = 0 \/ ops[j].ticket >= ops[id].ticket
    /\ StoreApply(id, Drop(ops, {id}), Continue(ops[id], World, now))
    /\ UNCHANGED calls

\* the promise of the factory of a getOrSet settles
FactorySettles(id, outcome) ==
    /\ id \in DOMAIN ops
    /\ ops[id].pc = "factory"
    /\ StoreApply(id, Drop(ops, {id}), FactoryContinue(ops[id], World, now, outcome))
    /\ UNCHANGED calls

\* d seconds pass: the records whose time has come are gone
Elapse(d) ==
    /\ calls < MaxStoreCalls
    /\ calls' = calls + 1
    /\ now' = now + d
    /\ redis' = Live(redis, now + d)
    /\ out' = Out("elapse", << >>, Undefined, << >>)
    /\ UNCHANGED <<schedVars, lifeVars, stats, ops, hist, utilVars>>

\* the object after construction, seen from the store side
StoreInit ==
    /\ Constructed("undefined")
    /\ out = Out("new", << >>, Undefined, << >>)

\* ------------------------------------------------------------------ tagged entries
KeyA == <<"a">>
KeyMetaA == <<"meta", "a">>        \* the key 'meta:a'

TagOptions(tags) == Options(NoNamespace, NoTtl, tags, "none", FALSE)

NextTags ==
    \/ \E key \in {KeyA, KeyMetaA}, tags \in {NoTags, Tags({"t"})} :
            Set(key, Num(1), TagOptions(tags))
    \/ \E key \in {KeyA, KeyMetaA} : Get(key, NoOptions)
    \/ Clear(TagOptions(Tags({"t"})))
    \/ \E id \in DOMAIN ops : StoreResume(id)

\* sets with and without tags, gets and clear({tags: ['t']})
SpecTags == StoreInit /\ [][NextTags]_vars

NextTagFrame ==
    \/ \E key \in {KeyA, KeyMetaA}, tag \in {"t", "u"} :
            Set(key, Num(1), TagOptions(Tags({tag})))
    \/ Clear(TagOptions(Tags({"t"})))
    \/ \E id \in DOMAIN ops : StoreResume(id)

\* entries tagged 't' and entries tagged 'u' under clear({tags: ['t']})
SpecTagFrame == StoreInit /\ [][NextTagFrame]_vars

\* ------------------------------------------------------------------ expiring entries
ShortTtl == 300                    \* an explicit ttl, shorter than the default
Lapses == {ShortTtl, DefaultTtl}   \* the lapses of time looked at

TtlOptions(ttl, tags, refreshTtl) == Options(NoNamespace, ttl, tags, "none", refreshTtl)

NextTtl ==
    \/ \E ttl \in {NoTtl, ShortTtl}, tags \in {NoTags, Tags({"t"})} :
            Set(KeyA, Num(1), TtlOptions(ttl, tags, FALSE))
    \/ \E ttl \in {NoTtl, ShortTtl}, refreshTtl \in BOOLEAN :
            Get(KeyA, TtlOptions(ttl, NoTags, refreshTtl))
    \/ Del(KeyA, NoOptions)
    \/ Clear(NoOptions)
    \/ Expire(KeyA, TtlOptions(ShortTtl, NoTags, FALSE))
    \/ Persist(KeyA, NoOptions)
    \/ \E d \in Lapses : Elapse(d)
    \/ \E id \in DOMAIN ops : StoreResume(id)

\* one entry under set, get, del, clear, expire, persist and the passing of time
SpecTtl == StoreInit /\ [][NextTtl]_vars

\* ------------------------------------------------------------------ conditional sets
ModeOptions(mode) == Options(NoNamespace, NoTtl, NoTags, mode, FALSE)

NextNx ==
    \/ \E value \in {Num(1), Num(42)}, mode \in {"none", "NX", "XX"} :
            Set(KeyA, value, ModeOptions(mode))
    \/ Get(KeyA, NoOptions)
    \/ Del(KeyA, NoOptions)
    \/ \E id \in DOMAIN ops : StoreResume(id)

\* one entry under plain and conditional sets, get and del
SpecNx == StoreInit /\ [][NextNx]_vars

NextConditional ==
    \/ \E entry \in {<<Num(1), NoTags>>, <<Str(LargeText), Tags({"t"})>>},
          mode \in {"NX", "XX"} :
            Set(KeyA, entry[1], Options(NoNamespace, NoTtl, entry[2], mode, FALSE))
    \/ \E id \in DOMAIN ops : StoreResume(id)

\* conditional sets of a small value without tags and of a large one with a tag
SpecConditional == StoreInit /\ [][NextConditional]_vars

\* ------------------------------------------------------------------ stored values
\* strings (one that spells a number, one large enough to be compressed), a
\* number and a nested object
Values == {Str("hello"), Str("42"), Str(LargeText), Num(42), Obj("a", Obj("b", Num(1)))}

\* options.defaultValue of a get: absent, or the string 'default'
Defaults == {Undefined, Str("default")}

\* what a factory of getOrSet yields
FactoryOutcomes == {Num(42), Null, FactoryError}

NextValues ==
    \/ \E value \in Values : Set(KeyA, value, NoOptions)
    \/ \E default \in Defaults : Get(KeyA, WithDefault(NoOptions, default))
    \/ GetOrSet(KeyA, NoOptions)
    \/ \E id \in DOMAIN ops : StoreResume(id)
    \/ \E id \in DOMAIN ops, outcome \in FactoryOutcomes : FactorySettles(id, outcome)

\* one entry under sets of values of every kind, get and getOrSet
SpecValues == StoreInit /\ [][NextValues]_vars

\* every call is awaited before the next one is made
NextOverwrite ==
    \/ /\ ops = << >>
       /\ \E value \in {Str("hello"), Str(LargeText)}, tags \in {NoTags, Tags({"t"})} :
              Set(KeyA, value, TagOptions(tags))
    \/ ops = << >> /\ Get(KeyA, NoOptions)
    \/ \E id \in DOMAIN ops : StoreResume(id)

\* one entry set again and again, one call after the other, with a small or
\* a large (compressed) value, with and without tags, and read back
SpecOverwrite == StoreInit /\ [][NextOverwrite]_vars

\* ------------------------------------------------------------------ counters
KeyC == <<"c">>
Amounts == {0 - 2, 1, MaxAmount}   \* the amounts added: increment('c', 5), increment('c', -2)

NextCounter ==
    \/ \E amount \in Amounts : Increment(KeyC, amount, NoOptions)
    \/ \E amount \in {1, 2} : Decrement(KeyC, amount, NoOptions)
    \/ \E id \in DOMAIN ops : StoreResume(id)

\* one counter under concurrent increments and decrements
SpecCounter == StoreInit /\ [][NextCounter]_vars

\* ------------------------------------------------------------------ failures
KeyAMeta == <<"a", "meta">>        \* the key 'a:meta'
InvalidKeys == {EmptyKey, LongKey, ControlKey}

NextErrors ==
    \/ \E key \in {KeyA} \cup InvalidKeys :
            Set(key, Str("hello"), TagOptions(Tags({"t"})))
    \/ \E key \in {KeyA, KeyAMeta} \cup InvalidKeys : Get(key, NoOptions)
    \/ \E key \in InvalidKeys : Del(key, NoOptions)
    \/ \E key \in {KeyA} \cup InvalidKeys : Increment(key, 1, NoOptions)
    \/ \E key \in InvalidKeys : Expire(key, TtlOptions(ShortTtl, NoTags, FALSE))
    \/ \E id \in DOMAIN ops : StoreResume(id)

\* operations on keys that validateKey refuses and on records of the wrong
\* type: a string that is no integer under increment, a hash under get
SpecErrors == StoreInit /\ [][NextErrors]_vars

\* ------------------------------------------------------------------ namespaces
\* the namespaces 'a' and 'a:b', the keys 'x' and 'b:x'
Namespaces == {<<"a">>, <<"a", "b">>}
NamespaceKeys == {<<"x">>, <<"b", "x">>}

NamespaceOptions(namespace) == Options(namespace, NoTtl, NoTags, "none", FALSE)

NextNamespaces ==
    \/ \E key \in NamespaceKeys, namespace \in Namespaces :
            Set(key, Num(1), NamespaceOptions(namespace))
    \/ \E key \in NamespaceKeys, namespace \in Namespaces :
            Get(key, NamespaceOptions(namespace))
    \/ \E key \in NamespaceKeys, namespace \in Namespaces :
            Del(key, NamespaceOptions(namespace))
    \/ \E namespace \in Namespaces : Clear(NamespaceOptions(namespace))
    \/ \E id \in DOMAIN ops : StoreResume(id)

\* entries of two namespaces under set, get, del and clear({namespace})
SpecNamespaces == StoreInit /\ [][NextNamespaces]_vars

\* ------------------------------------------------------------------ public calls
\* mutant: the queue follows the registry, a queued task is re-defined too
RegisterWarmupTask_Requeues(task) ==
    /\ calls < MaxCalls
    /\ calls' = calls + 1
    /\ warmupTasks' = [x \in DOMAIN warmupTasks \cup {task.id} |->
                          IF x = task.id THEN task ELSE warmupTasks[x]]
    /\ warmupQueue' = [i \in DOMAIN warmupQueue |->
                          IF warmupQueue[i].id = task.id THEN task ELSE warmupQueue[i]]
    /\ out' = Out("register", task.id, "void", <<WarmupEvent("registered", task.id, "none")>>)
    /\ UNCHANGED <<isProcessingWarmup, warmupInterval, execs>>

\* registerWarmupTask(task)
RegisterWarmupTask(task) ==
    /\ calls < MaxCalls
    /\ calls' = calls + 1
    /\ warmupTasks' = [x \in DOMAIN warmupTasks \cup {task.id} |->
                          IF x = task.id THEN task ELSE warmupTasks[x]]
    /\ out' = Out("register", task.id, "void", <<WarmupEvent("registered", task.id, "none")>>)
    /\ UNCHANGED <<warmupQueue, isProcessingWarmup, warmupInterval, execs>>

UnregisterWarmupTask(taskId) ==
    LET removed == taskId \in DOMAIN warmupTasks IN
    /\ calls < MaxCalls
    /\ calls' = calls + 1
    /\ warmupTasks' = [x \in DOMAIN warmupTasks \ {taskId} |-> warmupTasks[x]]
    /\ warmupQueue' = IF removed THEN WithoutId(warmupQueue, taskId) ELSE warmupQueue
    /\ out' = Out("unregister", taskId, IF removed THEN "true" ELSE "false",
                  IF removed THEN <<WarmupEvent("unregistered", taskId, "none")>> ELSE << >>)
    /\ UNCHANGED <<isProcessingWarmup, warmupInterval, execs>>

\* mutant: the priority override is ignored
QueuedCopy_NoOverride(task, priority) == task

\* {...task, ...(options.priority !== undefined && {priority: options.priority})}
QueuedCopy(task, priority) ==
    [task EXCEPT !.priority = IF priority # NoPriority THEN priority ELSE @]

\* mutant: an unknown id is answered with false instead of an error
QueueWarmupTask_NoThrow(taskId, priority) ==
    /\ calls < MaxCalls
    /\ calls' = calls + 1
    /\ IF taskId \notin DOMAIN warmupTasks \/ IsQueued(warmupQueue, taskId)
       THEN /\ out' = Out("queue", taskId, "false", << >>)
            /\ UNCHANGED warmupQueue
       ELSE /\ warmupQueue' = Append(warmupQueue, QueuedCopy(warmupTasks[taskId], priority))
            /\ out' = Out("queue", taskId, "true", <<WarmupEvent("queued", taskId, "none")>>)
    /\ UNCHANGED <<warmupTasks, isProcessingWarmup, warmupInterval, execs>>

QueueWarmupTask(taskId, priority) ==
    /\ calls < MaxCalls
    /\ calls' = calls + 1
    /\ IF taskId \notin DOMAIN warmupTasks
       THEN /\ out' = Out("queue", taskId, "throw not found", << >>)
            /\ UNCHANGED warmupQueue
       ELSE IF IsQueued(warmupQueue, taskId)
       THEN /\ out' = Out("queue", taskId, "false", << >>)
            /\ UNCHANGED warmupQueue
       ELSE /\ warmupQueue' = Append(warmupQueue, QueuedCopy(warmupTasks[taskId], priority))
            /\ out' = Out("queue", taskId, "true", <<WarmupEvent("queued", taskId, "none")>>)
    /\ UNCHANGED <<warmupTasks, isProcessingWarmup, warmupInterval, execs>>

\* mutant: a task that is run directly is taken out of the queue
RunWarmupTask_Dequeues(taskId) ==
    /\ calls < MaxCalls
    /\ calls' = calls + 1
    /\ IF taskId \notin DOMAIN warmupTasks
       THEN /\ out' = Out("run", taskId, "reject not found", << >>)
            /\ UNCHANGED <<execs, warmupQueue>>
       ELSE /\ BagCardinality(execs) < MaxExec
            /\ execs' = execs (+) SetToBag({ExecStart(warmupTasks[taskId], "run")})
            /\ warmupQueue' = WithoutId(warmupQueue, taskId)
            /\ out' = Out("run", taskId, "pending", <<WarmupEvent("started", taskId, "none")>>)
    /\ UNCHANGED <<warmupTasks, isProcessingWarmup, warmupInterval>>

\* runWarmupTask up to the first await of executeWarmupTask: 'started' is
\* emitted, task.execute() is called and the timeout timer is armed
RunWarmupTask(taskId) ==
    /\ calls < MaxCalls
    /\ calls' = calls + 1
    /\ IF taskId \notin DOMAIN warmupTasks
       THEN /\ out' = Out("run", taskId, "reject not found", << >>)
            /\ UNCHANGED execs
       ELSE /\ BagCardinality(execs) < MaxExec
            /\ execs' = execs (+) SetToBag({ExecStart(warmupTasks[taskId], "run")})
            /\ out' = Out("run", taskId, "pending", <<WarmupEvent("started", taskId, "none")>>)
    /\ UNCHANGED <<warmupTasks, warmupQueue, isProcessingWarmup, warmupInterval>>

\* mutant: destroy() leaves the interval running
Destroy_KeepsInterval ==
    /\ calls < MaxCalls
    /\ calls' = calls + 1
    /\ out' = Out("destroy", "", "void", << >>)
    /\ UNCHANGED <<warmupTasks, warmupQueue, isProcessingWarmup, warmupInterval, execs>>

\* destroy(): stopWarmupProcessor clears the interval
Destroy ==
    /\ calls < MaxCalls
    /\ calls' = calls + 1
    /\ warmupInterval' = FALSE
    /\ out' = Out("destroy", "", "void", << >>)
    /\ UNCHANGED <<warmupTasks, warmupQueue, isProcessingWarmup, execs>>

\* ------------------------------------------------------------------ the periodic drain
\* mutant: the reentrancy flag is not looked at
ProcessWarmupQueue_NoFlag ==
    /\ warmupInterval
    /\ IF warmupQueue = << >>
       THEN /\ out' = Out("tick", "", "noop", << >>)
            /\ UNCHANGED <<warmupQueue, isProcessingWarmup, execs>>
       ELSE LET sorted == SortByPriority(warmupQueue)
                task == Head(sorted)
            IN  /\ BagCardinality(execs) < MaxExec
                /\ isProcessingWarmup' = TRUE
                /\ warmupQueue' = Tail(sorted)
                /\ execs' = execs (+) SetToBag({ExecStart(task, "drain")})
                /\ out' = Out("tick", task.id, "started",
                              <<WarmupEvent("started", task.id, "none")>>)
    /\ UNCHANGED <<warmupTasks, warmupInterval, calls>>

\* one fire of the interval: processWarmupQueue up to its first await
ProcessWarmupQueue ==
    /\ warmupInterval
    /\ IF isProcessingWarmup \/ warmupQueue = << >>
       THEN /\ out' = Out("tick", "", "noop", << >>)
            /\ UNCHANGED <<warmupQueue, isProcessingWarmup, execs>>
       ELSE LET sorted == SortByPriority(warmupQueue)
                task == Head(sorted)
            IN  /\ BagCardinality(execs) < MaxExec
                /\ isProcessingWarmup' = TRUE
                /\ warmupQueue' = Tail(sorted)
                /\ execs' = execs (+) SetToBag({ExecStart(task, "drain")})
                /\ out' = Out("tick", task.id, "started",
                              <<WarmupEvent("started", task.id, "none")>>)
    /\ UNCHANGED <<warmupTasks, warmupInterval, calls>>

\* ------------------------------------------------------------------ the end of an execution
\* mutant: a body that settles after the timeout still reports
SettleEvents_Late(e, how) ==
    IF how = "resolve" THEN <<WarmupEvent("completed", e.id, "none")>>
    ELSE <<WarmupEvent("failed", e.id, "body")>>

\* what executeWarmupTask emits when the promise of task.execute() settles:
\* the await of a still pending activation returns or throws; a body that
\* settles after the race was lost to the timer resumes nobody
SettleEvents(e, how) ==
    IF e.wait # "pending" THEN << >>
    ELSE IF how = "resolve" THEN <<WarmupEvent("completed", e.id, "none")>>
    ELSE <<WarmupEvent("failed", e.id, "body")>>

\* what executeWarmupTask emits when the timer of the race rejects with
\* Error('Task timeout'); a rejection after the race is settled is dropped
TimeoutEvents(e) ==
    IF e.wait # "pending" THEN << >>
    ELSE <<WarmupEvent("failed", e.id, "timeout")>>

\* mutant: the catch block re-throws
ExecuteOutcome_Rethrows(events) ==
    IF \E i \in DOMAIN events : events[i].status = "failed" THEN "rejected" ELSE "resolved"

\* how the promise of executeWarmupTask settles: its catch block emits
\* 'failed' and does not re-throw
ExecuteOutcome(events) == "resolved"

\* emitEvent('error', undefined, undefined, {error}) in the catch of processWarmupQueue
ErrorEvent == [type |-> "error", status |-> "none", key |-> "", error |-> "rethrown"]

\* mutant: the end of any execution clears the reentrancy flag
Resume_ClearsAlways(e, events) ==
    /\ isProcessingWarmup' = FALSE
    /\ out' = Out(IF e.origin = "drain" THEN "drain done" ELSE "run done", e.id,
                  IF e.origin = "drain" THEN "void" ELSE ExecuteOutcome(events), events)

\* mutant: the flag is cleared after the await instead of in a finally
Resume_NoFinally(e, events) ==
    IF e.origin = "drain"
    THEN /\ isProcessingWarmup' = (\E i \in DOMAIN events : events[i].status = "failed")
         /\ out' = Out("drain done", e.id, "void", events)
    ELSE /\ out' = Out("run done", e.id, ExecuteOutcome(events), events)
         /\ UNCHANGED isProcessingWarmup

\* the await in the caller of executeWarmupTask resumes: processWarmupQueue
\* runs its catch and its finally, the promise of runWarmupTask settles
Resume(e, events) ==
    IF e.origin = "drain"
    THEN /\ isProcessingWarmup' = FALSE
         /\ out' = Out("drain done", e.id, "void",
                       IF ExecuteOutcome(events) = "rejected"
                       THEN events \o <<ErrorEvent>> ELSE events)
    ELSE /\ out' = Out("run done", e.id, ExecuteOutcome(events), events)
         /\ UNCHANGED isProcessingWarmup

\* the promise returned by task.execute() settles
BodySettles(e, how) ==
    LET events == SettleEvents(e, how) IN
    /\ BagIn(e, execs)
    /\ e.body = "running"
    /\ execs' = Replace(execs, e, [e EXCEPT !.body = "settled", !.wait = "done",
                                           !.emitted = @ \o Statuses(events)])
    /\ IF e.wait = "pending"
       THEN Resume(e, events)
       ELSE /\ out' = Out("late body", e.id, "void", events)
            /\ UNCHANGED isProcessingWarmup
    /\ UNCHANGED <<warmupTasks, warmupQueue, warmupInterval, calls>>

\* mutant: the timer callback does not reject the race
TimerFires_Ignored(e) ==
    /\ BagIn(e, execs)
    /\ e.timer = "armed"
    /\ execs' = Replace(execs, e, [e EXCEPT !.timer = "fired"])
    /\ out' = Out("late timer", e.id, "void", << >>)
    /\ UNCHANGED <<warmupTasks, warmupQueue, isProcessingWarmup, warmupInterval, calls>>

\* the setTimeout of the race fires
TimerFires(e) ==
    LET events == TimeoutEvents(e) IN
    /\ BagIn(e, execs)
    /\ e.timer = "armed"
    /\ execs' = Replace(execs, e, [e EXCEPT !.timer = "fired", !.wait = "done",
                                           !.emitted = @ \o Statuses(events)])
    /\ IF e.wait = "pending"
       THEN Resume(e, events)
       ELSE /\ out' = Out("late timer", e.id, "void", events)
            /\ UNCHANGED isProcessingWarmup
    /\ UNCHANGED <<warmupTasks, warmupQueue, warmupInterval, calls>>

Execs == BagToSet(execs)

Next ==
    \/ \E task \in TaskDefs : RegisterWarmupTask(task) /\ UNCHANGED <<lifeVars, storeVars, utilVars>>
    \/ \E taskId \in TaskIds : UnregisterWarmupTask(taskId) /\ UNCHANGED <<lifeVars, storeVars, utilVars>>
    \/ \E taskId \in TaskIds, priority \in OptPriorities :
            QueueWarmupTask(taskId, priority) /\ UNCHANGED <<lifeVars, storeVars, utilVars>>
    \/ \E taskId \in TaskIds : RunWarmupTask(taskId) /\ UNCHANGED <<lifeVars, storeVars, utilVars>>
    \/ Destroy /\ UNCHANGED <<lifeVars, storeVars, utilVars>>
    \/ ProcessWarmupQueue /\ UNCHANGED <<lifeVars, storeVars, utilVars>>
    \/ \E e \in Execs, how \in {"resolve", "reject"} :
            BodySettles(e, how) /\ UNCHANGED <<lifeVars, storeVars, utilVars>>
    \/ \E e \in Execs : TimerFires(e) /\ UNCHANGED <<lifeVars, storeVars, utilVars>>

Spec == Init /\ [][Next]_vars

\* the timers of the runtime fire: an armed timeout is not postponed forever
SpecTimers ==
    /\ Init
    /\ [][Next /\ calls' <= MaxTimedCalls]_vars
    /\ WF_vars(\E e \in Execs : TimerFires(e) /\ UNCHANGED <<lifeVars, storeVars, utilVars>>)

\* the interval keeps firing, armed timers fire, and a body that has no
\* timeout to end its execution settles
SpecDrain ==
    /\ Init
    /\ [][Next /\ calls' <= MaxTimedCalls]_vars
    /\ WF_vars(ProcessWarmupQueue /\ UNCHANGED <<lifeVars, storeVars, utilVars>>)
    /\ WF_vars(\E e \in Execs : TimerFires(e) /\ UNCHANGED <<lifeVars, storeVars, utilVars>>)
    /\ WF_vars(\E e \in Execs, how \in {"resolve", "reject"} :
                  /\ e.timer = "none"
                  /\ BodySettles(e, how) /\ UNCHANGED <<lifeVars, storeVars, utilVars>>)

\* ------------------------------------------------------------------ the singleton
\* Cache.getInstance(config): a new object is constructed when Cache.instance
\* is null. What was in flight on the object before it is no longer followed.
GetInstance(enableWarmup) ==
    /\ calls < MaxCalls
    /\ calls' = calls + 1
    /\ IF instance = 0
       THEN LET c == NewCache(enableWarmup) IN
            /\ warmupTasks' = c.warmupTasks
            /\ warmupQueue' = c.warmupQueue
            /\ isProcessingWarmup' = c.isProcessingWarmup
            /\ warmupInterval' = c.warmupInterval
            /\ stats' = c.stats
            /\ execs' = EmptyBag
            /\ ops' = << >>
            /\ created' = created + 1
            /\ instance' = created + 1
       ELSE UNCHANGED <<schedVars, lifeVars, stats, ops>>
    /\ out' = Out("getInstance", "", "object", << >>)
    /\ UNCHANGED <<redis, now, hist, utilVars>>

\* Cache.resetInstance(): destroy() on the instance, then Cache.instance = null
ResetInstance ==
    /\ calls < MaxCalls
    /\ calls' = calls + 1
    /\ IF instance # 0
       THEN /\ warmupInterval' = FALSE
            /\ instance' = 0
       ELSE UNCHANGED <<warmupInterval, instance>>
    /\ out' = Out("resetInstance", "", "void", << >>)
    /\ UNCHANGED <<warmupTasks, warmupQueue, isProcessingWarmup, execs, created, storeVars,
                   utilVars>>

NextSingleton ==
    \/ \E enableWarmup \in BoolOptions : GetInstance(enableWarmup)
    \/ ResetInstance
    \/ Destroy /\ UNCHANGED <<lifeVars, storeVars, utilVars>>
    \/ \E task \in TaskDefs : RegisterWarmupTask(task) /\ UNCHANGED <<lifeVars, storeVars, utilVars>>
    \/ Get(KeyA, NoOptions)
    \/ \E id \in DOMAIN ops : StoreResume(id)

\* the singleton under getInstance, resetInstance and destroy, with a task
\* registry and statistics to inherit
SpecSingleton == Init /\ [][NextSingleton]_vars

NextStats ==
    \/ Set(KeyA, Num(1), TagOptions(Tags({"t"})))
    \/ \E key \in {KeyA, EmptyKey} : Get(key, NoOptions)
    \/ Del(KeyA, NoOptions)
    \/ GetInstance("undefined")
    \/ ResetInstance
    \/ \E id \in DOMAIN ops : StoreResume(id)

\* the statistics of the instance under set, get, del, a get that fails, and
\* the replacement of the instance
SpecStats == StoreInit /\ [][NextStats]_vars

\* the object constructed with {enableWarmup: false}, under the same steps
SpecNoWarmup == InitNoWarmup /\ [][Next /\ calls' <= MaxTimedCalls]_vars

\* ------------------------------------------------------------------ retry
DefaultAttempts == 3               \* attempts = 3
DefaultBaseDelay == 1000           \* baseDelay = 1000

Attempts == 0..MaxAttempts         \* the attempts looked at
BaseDelays == {0, 10, 50}          \* the base delays looked at, in milliseconds
Results == {"success"}             \* what fn resolves with
Errors == {"fail 1", "fail 2"}     \* what fn rejects with

\* mutant: the same delay after every failure
DelayMs_Constant(baseDelay, i) == baseDelay

\* baseDelay * Math.pow(2, i)
DelayMs(baseDelay, i) == baseDelay * 2^i

\* for (let i = ...; i < attempts; ...): the body is entered and fn invoked, or
\* the loop is left and lastError thrown
LoopTest(r, i) ==
    IF i < r.attempts
    THEN [r EXCEPT !.pc = "fn", !.i = i]
    ELSE [r EXCEPT !.pc = "thrown", !.i = i, !.settled = r.lastError]

\* retry(fn, attempts, baseDelay) is called
Retry(attempts, baseDelay) ==
    /\ retrying.pc = "idle"
    /\ retrying' = LoopTest([retrying EXCEPT !.attempts = attempts, !.baseDelay = baseDelay], 0)
    /\ UNCHANGED <<schedVars, lifeVars, storeVars, calls, out>>

\* the promise of fn() settles: a result is returned at once; an error is
\* kept as lastError, and either it was the last attempt or delay(delayMs)
\* is awaited
FnSettles(how, value) ==
    /\ retrying.pc = "fn"
    /\ LET r == [retrying EXCEPT !.outcomes = Append(@, [how |-> how, value |-> value])] IN
       retrying' =
           IF how = "resolve"
           THEN [r EXCEPT !.pc = "returned", !.settled = value]
           ELSE IF r.i = r.attempts - 1
                THEN [r EXCEPT !.pc = "thrown", !.lastError = value, !.settled = value]
                ELSE [r EXCEPT !.pc = "delay", !.lastError = value,
                               !.waited = Append(@, DelayMs(r.baseDelay, r.i))]
    /\ UNCHANGED <<schedVars, lifeVars, storeVars, calls, out>>

\* the timer of delay(delayMs) fires: i++ and the loop test
DelayElapses ==
    /\ retrying.pc = "delay"
    /\ retrying' = LoopTest(retrying, retrying.i + 1)
    /\ UNCHANGED <<schedVars, lifeVars, storeVars, calls, out>>

NextRetry ==
    \/ \E attempts \in Attempts, baseDelay \in BaseDelays : Retry(attempts, baseDelay)
    \/ Retry(DefaultAttempts, DefaultBaseDelay)
    \/ \E value \in Results : FnSettles("resolve", value)
    \/ \E value \in Errors : FnSettles("reject", value)
    \/ DelayElapses

\* one call of retry, with fn settling either way each time it is invoked
SpecRetry == Init /\ [][NextRetry]_vars

\* ------------------------------------------------------------------ observers
\* number of activations satisfying P
Count(P(_)) == BagCardinality([e \in {x \in Execs : P(x)} |-> execs[e]])

BodyRunning(e) == e.body = "running"
DrainAwaited(e) == e.origin = "drain" /\ e.wait = "pending"
RunBody(e) == e.origin = "run" /\ e.body = "running"

InQueue(id) == id \in {warmupQueue[i].id : i \in DOMAIN warmupQueue}

HasStatus(events, status) == \E i \in DOMAIN events : events[i].status = status
NumStatus(events, status, key) ==
    Cardinality({i \in DOMAIN events : events[i].status = status /\ events[i].key = key})

\* ------------------------------------------------------------------ C1
\* C1 (as stated): in every reachable state at most one warmup task body is
\* executing.
C1_SingleFlight == Count(BodyRunning) <= 1

\* C1 (amended): at most one task body started by the periodic drain is being
\* awaited at any instant, and the reentrancy flag is set whenever one is.
C1_DrainSingleFlight ==
    /\ Count(DrainAwaited) <= 1
    /\ Count(DrainAwaited) = 1 => isProcessingWarmup

\* a drain step awaits its task while a directly run body executes as well
C1_Witness == Count(DrainAwaited) = 1 /\ Count(RunBody) >= 1

\* ------------------------------------------------------------------ C2
IsDrainStep == out'.op = "tick" /\ ~isProcessingWarmup /\ warmupQueue # << >>

QueueBag(q) == [t \in {q[i] : i \in DOMAIN q} |-> Cardinality({i \in DOMAIN q : q[i] = t})]

\* C2: a drain step that finds a non-empty pending queue removes exactly one
\* task from it, that task has the maximum effective priority among the
\* queued tasks and is the one started; every other queued task stays queued.
C2_DrainTakesMax ==
    [][IsDrainStep =>
        \E i \in DOMAIN warmupQueue :
            /\ \A j \in DOMAIN warmupQueue :
                   EffectivePriority(warmupQueue[j]) <= EffectivePriority(warmupQueue[i])
            /\ Len(warmupQueue') = Len(warmupQueue) - 1
            /\ QueueBag(warmupQueue') (+) SetToBag({warmupQueue[i]}) = QueueBag(warmupQueue)
            /\ out'.id = warmupQueue[i].id
            /\ out'.events = <<WarmupEvent("started", warmupQueue[i].id, "none")>>]_vars

\* a drain step has taken one task and left a queued task behind
C2_Witness == out.op = "tick" /\ out.ret = "started" /\ warmupQueue # << >>

\* ------------------------------------------------------------------ C3
\* C3: the pending queue holds at most one entry per task id, and
\* queueWarmupTask on an id that is already queued returns false, emits no
\* event and leaves the queue unchanged.
C3_QueueOncePerId ==
    /\ [](\A i, j \in DOMAIN warmupQueue : warmupQueue[i].id = warmupQueue[j].id => i = j)
    /\ [][(out'.op = "queue" /\ InQueue(out'.id)) =>
            /\ out'.ret = "false"
            /\ out'.events = << >>
            /\ UNCHANGED warmupQueue]_vars

\* a second queueWarmupTask on a queued id has returned
C3_Witness == out.op = "queue" /\ out.ret = "false" /\ InQueue(out.id)

\* ------------------------------------------------------------------ C4
\* C4: a periodic tick that fires while a drain step is still awaiting its
\* task starts no task, removes nothing from the queue and emits no event.
C4_TickWhileBusyIsNoop ==
    [][(out'.op = "tick" /\ isProcessingWarmup) =>
            /\ UNCHANGED <<warmupTasks, warmupQueue, isProcessingWarmup, execs>>
            /\ out'.events = << >>]_vars

\* a tick has fired with tasks queued while a drain step was in flight
C4_Witness ==
    /\ out.op = "tick" /\ out.ret = "noop"
    /\ isProcessingWarmup /\ warmupQueue # << >> /\ Count(DrainAwaited) = 1

\* ------------------------------------------------------------------ C5
\* C5: when a task executed by the drain fails or times out, nothing escapes
\* the drain step (no 'error' event, only 'failed') and the reentrancy flag
\* is cleared, so a later tick is not blocked.
C5_DrainFailureIsolated ==
    [][(out'.op = "drain done" /\ HasStatus(out'.events, "failed")) =>
            /\ ~isProcessingWarmup'
            /\ Len(out'.events) = 1
            /\ out'.events[1].type = "warmup"
            /\ UNCHANGED <<warmupQueue, warmupTasks>>]_vars

\* a drained task has timed out while another task is still queued
C5_Witness ==
    /\ out.op = "drain done"
    /\ out.events = <<WarmupEvent("failed", out.id, "timeout")>>
    /\ ~isProcessingWarmup /\ warmupQueue # << >>

\* ------------------------------------------------------------------ C6
\* C6 (as stated): when a directly run task fails or times out the promise
\* returned by runWarmupTask rejects.
C6_RunRejects ==
    (out.op = "run done" /\ HasStatus(out.events, "failed")) => out.ret = "rejected"

\* C6 (amended): when a directly run task fails or times out, the failure is
\* reported by one 'failed' event carrying the cause and the promise returned
\* by runWarmupTask resolves.
C6_RunResolves ==
    (out.op = "run done" /\ HasStatus(out.events, "failed")) =>
        /\ out.ret = "resolved"
        /\ Len(out.events) = 1
        /\ out.events[1].error \in {"body", "timeout"}

\* a directly run task has failed by rejection of its body
C6_Witness == out.op = "run done" /\ out.events = <<WarmupEvent("failed", out.id, "body")>>

\* ------------------------------------------------------------------ C7
Awaited(key) == Count(LAMBDA e : e.id = key /\ e.wait = "pending")

Terminals(events, key) ==
    NumStatus(events, "completed", key) + NumStatus(events, "failed", key)

\* C7: every execution emits 'started' once, when it begins, and exactly one
\* terminal event, 'completed' or 'failed', when its wait ends; nothing that
\* settles afterwards (a late body, a late timer) emits a lifecycle event.
C7_OneStartOneTerminal ==
    /\ [](\A e \in Execs :
            /\ e.emitted \in {<<"started">>, <<"started", "completed">>, <<"started", "failed">>}
            /\ (e.wait = "pending") <=> (Len(e.emitted) = 1))
    /\ [][\A key \in TaskIds :
            /\ Awaited(key)' = Awaited(key) + NumStatus(out'.events, "started", key)
                                            - Terminals(out'.events, key)
            /\ NumStatus(out'.events, "started", key) + Terminals(out'.events, key) <= 1]_vars

\* the body of an execution that had timed out has settled
C7_Witness == out.op = "late body" /\ out.events = << >>

\* ------------------------------------------------------------------ C8
\* the activations that wait on a race against an armed timer
Racing ==
    [id : TaskIds, origin : {"drain", "run"}, wait : {"pending"}, body : {"running"},
     timer : {"armed"}, emitted : {<<"started">>}]

DoneOp(e) == IF e.origin = "drain" THEN "drain done" ELSE "run done"

TimedOut(e) ==
    out.op = DoneOp(e) /\ out.events = <<WarmupEvent("failed", e.id, "timeout")>>

BodyWasFirst(e) ==
    /\ out.op = DoneOp(e) /\ out.id = e.id /\ Len(out.events) = 1
    /\ out.events[1].error # "timeout"

\* C8: an execution of a task that declares a timeout, run directly or by the
\* drain, leads to a 'failed' event carrying the timeout error unless its
\* body settles first; so a body that never settles yields that event.
C8_TimeoutFails == \A e \in Racing : BagIn(e, execs) ~> (TimedOut(e) \/ BodyWasFirst(e))

\* a wait has been ended by the timer and the body is still running
C8_Witness ==
    /\ out.events = <<WarmupEvent("failed", out.id, "timeout")>>
    /\ \E e \in Execs : e.id = out.id /\ e.body = "running" /\ e.timer = "fired"

\* ------------------------------------------------------------------ C9
\* C9: queueWarmupTask and runWarmupTask with an id that is not registered
\* fail with a not-found error, leave registry and queue unchanged, invoke no
\* body and emit no event.
C9_UnknownIdFails ==
    [][(out'.op \in {"queue", "run"} /\ out'.id \notin DOMAIN warmupTasks) =>
            /\ out'.ret = IF out'.op = "queue" THEN "throw not found" ELSE "reject not found"
            /\ out'.events = << >>
            /\ UNCHANGED <<warmupTasks, warmupQueue, execs, isProcessingWarmup>>]_vars

\* runWarmupTask has been called with an id that is not registered
C9_Witness == out.op = "run" /\ out.ret = "reject not found" /\ out.id \notin DOMAIN warmupTasks

\* ------------------------------------------------------------------ C10
\* C10: unregisterWarmupTask returns true exactly when the id was registered;
\* then the id leaves the registry and the queue (nothing else does) and one
\* 'unregistered' event is emitted; otherwise it returns false, changes
\* nothing and emits nothing.
C10_Unregister ==
    [][out'.op = "unregister" =>
        LET id == out'.id IN
        /\ UNCHANGED <<execs, isProcessingWarmup, warmupInterval>>
        /\ IF id \in DOMAIN warmupTasks
           THEN /\ out'.ret = "true"
                /\ DOMAIN warmupTasks' = DOMAIN warmupTasks \ {id}
                /\ \A x \in DOMAIN warmupTasks' : warmupTasks'[x] = warmupTasks[x]
                /\ warmupQueue' = SelectSeq(warmupQueue, LAMBDA t : t.id # id)
                /\ out'.events = <<WarmupEvent("unregistered", id, "none")>>
           ELSE /\ out'.ret = "false"
                /\ out'.events = << >>
                /\ UNCHANGED <<warmupTasks, warmupQueue>>]_vars

\* a registered task has been unregistered while another one stays queued
C10_Witness ==
    /\ out.op = "unregister" /\ out.ret = "true"
    /\ out.id \notin DOMAIN warmupTasks /\ ~InQueue(out.id) /\ warmupQueue # << >>

\* ------------------------------------------------------------------ C11
\* C11: destroy() stops the periodic processor, and a stopped processor stays
\* stopped: no later step is a drain step, nothing is taken from the pending
\* queue by a tick and no execution of drain origin is added, even while
\* tasks are queued.
C11_NoDrainAfterDestroy ==
    [][/\ out'.op = "destroy" => ~warmupInterval'
       /\ ~warmupInterval =>
            /\ ~warmupInterval'
            /\ out'.op # "tick"
            /\ Count(DrainAwaited)' <= Count(DrainAwaited)
            /\ out'.op \notin {"unregister", "queue"} => UNCHANGED warmupQueue]_vars

\* after destroy() a task has been queued and stays queued
C11_Witness ==
    /\ ~warmupInterval /\ out.op = "queue" /\ out.ret = "true"
    /\ InQueue(out.id) /\ ~isProcessingWarmup

\* ------------------------------------------------------------------ C13
\* C13: on an object constructed with enableWarmup = false no tick of the
\* periodic processor starts a queued task; only runWarmupTask starts one.
C13_DisabledNeverDrains ==
    \A e \in Execs : e.origin # "drain" /\ ~(out.op = "tick" /\ out.ret = "started")

\* ------------------------------------------------------------------ C14
\* the operations that return in this step
Returning == DOMAIN ops \ DOMAIN ops'

InDefaultNamespace(k) ==
    Len(k) > 2 /\ SubSeq(k, 1, 2) = KeyPrefix \o DefaultNamespace

IsClearByTags(o) == o.op = "clear" /\ o.opt.tags.given /\ o.opt.tags.tags # {}

\* C14: when a clear({tags: T}) that no other operation overlapped returns,
\* every entry of the default namespace whose last successful set supplied a
\* tag of T is gone, primary record and metadata record; and a get of a key
\* that has no primary record returns null.
C14_ClearByTagsRemoves ==
    [][\A id \in Returning :
        LET o == ops[id] IN
        /\ (IsClearByTags(o) /\ o.solo /\ out'.ret.t # "throw") =>
              \A k \in DOMAIN hist :
                  (InDefaultNamespace(k) /\ hist[k].tags \cap o.opt.tags.tags # {}) =>
                      k \notin DOMAIN redis' /\ MetaKeyOf(k) \notin DOMAIN redis'
        /\ (o.op = "get" /\ o.solo /\ CacheKeyOf(o) \notin DOMAIN o.pre) =>
              out'.ret = Null]_vars

\* ------------------------------------------------------------------ C15
\* the tags the store records for the entry under store key k
RecordedTags(r, k) ==
    IF MetaKeyOf(k) \in DOMAIN r /\ r[MetaKeyOf(k)].kind = "hash"
    THEN r[MetaKeyOf(k)].fields.tags ELSE {}

\* C15: when a successful set that no other operation overlapped returns,
\* the tag set recorded for its entry is exactly the tags it supplied, the
\* empty set if it supplied none: tags of earlier sets are not kept.
C15_TagsAreLastSet ==
    [][\A id \in Returning :
        LET o == ops[id] IN
        (o.op = "set" /\ o.solo /\ out'.ret = Bool(TRUE)) =>
            RecordedTags(redis', CacheKeyOf(o)) = o.opt.tags.tags]_vars

\* ------------------------------------------------------------------ C16
\* C16: in every reachable state a metadata record exists only if the
\* primary record of its entry exists.
C16_NoOrphanedMetadata ==
    \A m \in DOMAIN redis :
        redis[m].kind = "hash" => SubSeq(m, 1, Len(m) - 1) \in DOMAIN redis

\* ------------------------------------------------------------------ C17
\* the operations that change the TTL of a primary record, having done so
ChangedTtl(o, ret) ==
    \/ o.op = "set" /\ ret = Bool(TRUE)
    \/ o.op = "get" /\ o.pc \in {"refresh", "refreshmeta"}
    \/ o.op \in {"expire", "persist"} /\ ret = Bool(TRUE)

\* C17: when an operation that changed the TTL of a primary record returns
\* (no other operation overlapped it, no time passed meanwhile), the metadata
\* record of the entry, if there is one, expires when the primary record does.
C17_MetadataTtlFollows ==
    [][\A id \in Returning :
        LET o == ops[id]
            k == CacheKeyOf(o)
        IN  (ChangedTtl(o, out'.ret) /\ o.solo /\ o.at = now
                /\ k \in DOMAIN redis' /\ MetaKeyOf(k) \in DOMAIN redis') =>
            redis'[MetaKeyOf(k)].exp = redis'[k].exp]_vars

\* ------------------------------------------------------------------ C19
\* C19: a set with nx that no other operation overlapped returns true and
\* stores its value when the key had no record, and returns false, emits
\* nothing and leaves the record and its metadata as they were when it had
\* one: after set nx of v and set nx of v2 the stored value is still v.
C19_SetNx ==
    [][\A id \in Returning :
        LET o == ops[id]
            k == CacheKeyOf(o)
        IN  (o.op = "set" /\ o.opt.mode = "NX" /\ o.solo /\ o.at = now) =>
            IF k \notin DOMAIN o.pre
            THEN /\ out'.ret = Bool(TRUE)
                 /\ k \in DOMAIN redis'
                 /\ redis'[k].payload = Plain(Serialize(o.value))
            ELSE /\ out'.ret = Bool(FALSE)
                 /\ out'.events = << >>
                 /\ redis' = o.pre
                 /\ UNCHANGED stats]_vars

\* a second set with nx has been refused and the value of the first is stored
C19_Witness ==
    /\ out.op = "set" /\ out.ret = Bool(FALSE) /\ calls = 2 /\ stats.sets = 1
    /\ GenerateCacheKey(KeyA, DefaultNamespace, KeyPrefix) \in DOMAIN redis
    /\ \E v \in {Num(1), Num(42)} :
          /\ hist[GenerateCacheKey(KeyA, DefaultNamespace, KeyPrefix)].value = v
          /\ redis[GenerateCacheKey(KeyA, DefaultNamespace, KeyPrefix)].payload
                = Plain(Serialize(v))

\* ------------------------------------------------------------------ C18
\* C18: a get that no other operation overlapped, of a key whose record was
\* there when it was called, returns a value equal to the value of the last
\* successful set of that key, be it a string, a number or a nested object.
C18_RoundTrip ==
    [][\A id \in Returning :
        LET o == ops[id]
            k == CacheKeyOf(o)
        IN  (o.op = "get" /\ o.solo /\ k \in DOMAIN o.pre /\ k \in DOMAIN hist) =>
            out'.ret = hist[k].value]_vars

\* ------------------------------------------------------------------ C20
\* C20: a getOrSet that no other operation overlapped and that does not
\* throw either returns from its get, and then with the non-null cached
\* value, a 'hit', no call of the factory and no write to the store; or it
\* returns after get yielded null, the factory was called exactly once and
\* set was called with the factory's value, which is the value returned.
C20_GetOrSet ==
    [][\A id \in Returning :
        LET o == ops[id] IN
        (o.op = "getOrSet" /\ o.solo /\ out'.ret.t # "throw") =>
            IF o.run = "get"
            THEN /\ out'.ret # Null
                 /\ out'.events = <<StoreEvent("hit", o.key)>>
                 /\ o.loc.factory = 0
                 /\ o.loc.writes = 0
                 /\ UNCHANGED redis
            ELSE /\ o.run = "set"
                 /\ o.loc.existing = Null
                 /\ o.loc.factory = 1
                 /\ o.loc.writes >= 1
                 /\ out'.ret = o.value
                 /\ hist'[CacheKeyOf(o)].value = o.value]_vars

\* a getOrSet has called its factory and stored the value, and the next
\* getOrSet has returned the cached value
C20_Witness ==
    /\ out.op = "getOrSet" /\ out.ret = Num(42) /\ calls = 2
    /\ out.events = <<StoreEvent("hit", KeyA)>>
    /\ stats.sets = 1 /\ stats.misses = 1 /\ stats.hits = 1

\* ------------------------------------------------------------------ C12
\* the object Cache.instance points to has not been destroyed
InstanceAlive == instance # 0 /\ warmupInterval

\* C12: getInstance() returns the object returned before as long as that
\* object has not been destroyed; the first getInstance() after destroy()
\* returns a new object with an empty registry, an empty queue and all
\* statistics at zero.
C12_FreshAfterDestroy ==
    [][out'.op = "getInstance" =>
        IF InstanceAlive
        THEN instance' = instance /\ UNCHANGED <<created, warmupTasks, warmupQueue, stats>>
        ELSE /\ created' = created + 1
             /\ instance' = created'
             /\ warmupTasks' = << >>
             /\ warmupQueue' = << >>
             /\ stats' = ZeroStats]_vars

\* ------------------------------------------------------------------ C21
\* C21: getOrSet has no guard against concurrent callers: every getOrSet
\* whose get finds no record calls the factory, whatever other getOrSet of
\* the same key is in flight; so two concurrent calls on a missing key can
\* both miss and the factory is then invoked twice.
C21_EveryMissCallsFactory ==
    [][\A id \in DOMAIN ops :
        LET o == ops[id] IN
        (/\ o.op = "getOrSet" /\ o.pc = "read"
         /\ o.loc.reply = Nil /\ o.loc.metadata # WrongType
         /\ (id \notin DOMAIN ops' \/ ops'[id].pc # "read")) =>
            /\ id \in DOMAIN ops'
            /\ ops'[id].pc = "factory"
            /\ ops'[id].loc.factory = 1]_vars

\* two getOrSet calls on the same key have both missed and both wait for
\* their own call of the factory
C21_Witness ==
    /\ stats.misses = 2
    /\ \E i, j \in DOMAIN ops :
          /\ i # j /\ ops[i].key = ops[j].key
          /\ \A x \in {i, j} :
                ops[x].op = "getOrSet" /\ ops[x].pc = "factory" /\ ops[x].loc.factory = 1

\* ------------------------------------------------------------------ C22
\* C22: a get that no other operation overlapped, of a key that has no
\* primary record, returns the defaultValue supplied (null if none), adds one
\* to misses and emits one 'miss'; of a key that has one, it adds one to hits
\* and emits one 'hit'; no other counter changes in either case.
C22_GetCounts ==
    [][\A id \in Returning :
        LET o == ops[id] IN
        (o.op = "get" /\ o.solo) =>
            IF CacheKeyOf(o) \notin DOMAIN o.pre
            THEN /\ out'.ret = IF o.opt.defaultValue = Undefined THEN Null
                                ELSE o.opt.defaultValue
                 /\ stats' = [o.preStats EXCEPT !.misses = @ + 1]
                 /\ out'.events = <<StoreEvent("miss", o.key)>>
            ELSE /\ stats' = [o.preStats EXCEPT !.hits = @ + 1]
                 /\ out'.events = <<StoreEvent("hit", o.key)>>]_vars

\* ------------------------------------------------------------------ C23
\* C23: when a del without pattern that no other operation overlapped
\* returns, the primary record and the metadata record of its key are both
\* gone, the deletes counter has grown by the number of store keys that were
\* removed, which is the number returned, and a 'delete' event is emitted
\* exactly when that number is not zero.
C23_DelCounts ==
    [][\A id \in Returning :
        LET o == ops[id]
            k == CacheKeyOf(o)
            removed == Cardinality({k, MetaKeyOf(k)} \cap DOMAIN o.pre)
        IN  (o.op = "del" /\ o.solo) =>
            /\ k \notin DOMAIN redis' /\ MetaKeyOf(k) \notin DOMAIN redis'
            /\ out'.ret = Num(removed)
            /\ stats'.deletes = o.preStats.deletes + removed
            /\ (out'.events = <<StoreEvent("delete", o.key)>>) <=> (removed > 0)
            /\ (out'.events = << >>) <=> (removed = 0)]_vars

\* ------------------------------------------------------------------ C24
\* C24: whenever an operation ends because the store rejected one of its
\* commands, the errors counter has grown by one, one 'error' event carrying
\* the key is emitted and the rejection is what the caller gets.
C24_StoreFailureCounted ==
    [][\A id \in Returning :
        out'.ret.t = "error" =>
            /\ stats' = [stats EXCEPT !.errors = @ + 1]
            /\ out'.events = <<StoreEvent("error", ops[id].key)>>]_vars

\* ------------------------------------------------------------------ C25
\* the operations called in this step that are in flight after it
Called == DOMAIN ops' \ DOMAIN ops

\* C25: a call of an operation that takes a logical key, made with a key
\* that validateKey refuses, fails at once with the validation error and
\* leaves the store as it was.
C25_InvalidKeyFailsFast ==
    [][(calls' = calls + 1 /\ out'.id \in InvalidKeys) =>
            /\ out'.ret = ValidationError(out'.id)
            /\ Called = {}
            /\ UNCHANGED redis]_vars

\* ------------------------------------------------------------------ C29
\* C29: the value of a counter is the sum of all amounts added to it (no
\* update is lost, whatever the interleaving); INCRBY answers each increment
\* or decrement with the sum as its own amount made it, the amount itself on
\* a fresh key, and that answer is what the call returns; decrement adds the
\* negated amount.
C29_CounterIsSum ==
    /\ [](\A k \in DOMAIN redis : redis[k].payload = Plain(ToString(SumOf(hist, k))))
    /\ [][\A id \in Called :
            LET o == ops'[id]
                k == CacheKeyOf(o)
            IN  /\ o.loc.reply = Integer(SumOf(hist, k) + o.value.n)
                /\ k \notin DOMAIN redis => o.loc.reply = Integer(o.value.n)
                /\ o.op = "decrement" => o.value.n < 0]_vars
    /\ [][\A id \in Returning : out'.ret = Num(ops[id].loc.reply.n)]_vars

\* a decrement by 2 on the fresh counter has returned -2 while the increment
\* by MaxAmount called after it, still in flight, has been answered with
\* their sum
C29_Witness ==
    /\ out.op = "decrement" /\ out.ret = Num(0 - 2)
    /\ \E id \in DOMAIN ops :
          ops[id].op = "increment" /\ ops[id].loc.reply = Integer(MaxAmount - 2)

\* ------------------------------------------------------------------ C26
\* the entry under store key k was last written in a namespace other than
\* that of operation o
Foreign(k, o) == k \in DOMAIN hist /\ hist[k].namespace # NamespaceOf(o.opt)

\* C26: namespaces have disjoint keyspaces: the store key a set, get or del
\* of one namespace works on is never the store key of an entry written in
\* another namespace, and clear({namespace}) removes no entry written in
\* another namespace.
C26_NamespacesDisjoint ==
    [][/\ \A id \in Called :
            LET o == ops'[id] IN
            (o.op \in {"set", "get", "del"} /\ CacheKeyOf(o) \in DOMAIN redis) =>
                ~Foreign(CacheKeyOf(o), o)
       /\ \A id \in DOMAIN ops :
            (/\ ops[id].op = "clear" /\ ops[id].pc = "scan"
             /\ (id \notin DOMAIN ops' \/ ops'[id].pc # "scan")) =>
                \A k \in DOMAIN redis \ DOMAIN redis' : ~Foreign(k, ops[id])]_vars

\* ------------------------------------------------------------------ C27
\* the TTLs a refresh by operation o may give: the ttl of its options, or,
\* when it has none, any TTL an entry is written with
FullTtls(o) == IF o.opt.ttl # NoTtl THEN {o.opt.ttl} ELSE {DefaultTtl, ShortTtl}

\* C27: when a get with refreshTtl = true of a present entry returns (no
\* other operation overlapped it, no time passed meanwhile), the primary
\* record has a full TTL again and the metadata record, if there is one,
\* expires when the primary record does.
C27_GetRefreshesTtl ==
    [][\A id \in Returning :
        LET o == ops[id]
            k == CacheKeyOf(o)
        IN  (/\ o.op = "get" /\ o.opt.refreshTtl /\ o.solo /\ o.at = now
             /\ k \in DOMAIN o.pre /\ k \in DOMAIN redis') =>
            /\ redis'[k].exp - now \in FullTtls(o)
            /\ MetaKeyOf(k) \in DOMAIN redis' =>
                    redis'[MetaKeyOf(k)].exp = redis'[k].exp]_vars

\* ------------------------------------------------------------------ C28
\* C28: as long as the instance is the same object none of its counters
\* hits, misses, sets, deletes and errors decreases; a newly constructed
\* instance has them all at zero.
C28_CountersMonotonic ==
    [][/\ created' = created => \A field \in DOMAIN stats : stats'[field] >= stats[field]
       /\ created' # created => stats' = ZeroStats]_vars

\* a second instance has just been constructed, its counters at zero, after
\* a set on the first one had been counted and had written its metadata
C28_Witness ==
    /\ created = 2 /\ out.op = "getInstance" /\ stats = ZeroStats
    /\ \E k \in DOMAIN redis : MetaKeyOf(k) \in DOMAIN redis

\* ------------------------------------------------------------------ C30
\* the outcomes of the invocations of fn before the last one
Earlier(r) == SubSeq(r.outcomes, 1, Len(r.outcomes) - 1)
Rejected(outcomes) == \A n \in DOMAIN outcomes : outcomes[n].how = "reject"
\* the invocation under way, if any
Invoking(r) == IF r.pc = "fn" THEN 1 ELSE 0

\* C30: retry invokes fn at most `attempts` times; when it has returned, the
\* value is the result of the last invocation made and every invocation
\* before it failed; when it has rejected after an invocation, all `attempts`
\* invocations failed and the error is that of the last one; the waits made
\* are baseDelay * 2^i for i = 0, 1, ..., one after each failed invocation
\* but the last of `attempts`.
C30_RetryBackoff ==
    LET r == retrying
        invoked == Len(r.outcomes) + Invoking(r) IN
    /\ invoked <= r.attempts
    /\ r.pc = "returned" =>
            /\ r.outcomes[Len(r.outcomes)] = [how |-> "resolve", value |-> r.settled]
            /\ Rejected(Earlier(r))
    /\ r.pc = "thrown" /\ r.outcomes # << >> =>
            /\ Len(r.outcomes) = r.attempts
            /\ Rejected(r.outcomes)
            /\ r.settled = r.outcomes[Len(r.outcomes)].value
    /\ r.waited = [n \in 1..Len(r.waited) |-> r.baseDelay * 2^(n - 1)]
    /\ Len(r.waited) = IF r.pc = "delay" THEN invoked
                       ELSE IF invoked = 0 THEN 0 ELSE invoked - 1

\* retry(fn, 3, 50) has rejected with the error of the third invocation
\* after waits of 50 and 100 milliseconds
C30_Witness ==
    /\ retrying.pc = "thrown"
    /\ retrying.attempts = DefaultAttempts
    /\ retrying.waited = <<50, 100>>
    /\ retrying.outcomes[1].value = "fail 1"
    /\ retrying.settled = "fail 2"

\* ------------------------------------------------------------------ C31
\* the sets that get their reply from the store in this step
Replied == {id \in DOMAIN ops' :
                /\ ops'[id].op = "set" /\ ops'[id].pc = "set"
                /\ (id \notin DOMAIN ops \/ ops[id].pc # "set")}
\* SET with this mode is refused when the store is r
Refused(o, r) ==
    \/ o.opt.mode = "NX" /\ CacheKeyOf(o) \in DOMAIN r
    \/ o.opt.mode = "XX" /\ CacheKeyOf(o) \notin DOMAIN r

\* C31: a set with nx on a key that has a record, or with xx on a key that
\* has none, leaves the whole store as it was when its SET is issued, and
\* when it returns it returns false, emits nothing, and leaves the store
\* and all the counters as they were.
C31_RefusedSetChangesNothing ==
    [][/\ \A id \in Replied :
            Refused(ops'[id], redis) =>
                ops'[id].loc.reply = Nil /\ UNCHANGED <<redis, stats, hist>>
       /\ \A id \in Returning :
            LET o == ops[id] IN
            (o.op = "set" /\ o.pc = "set" /\ o.loc.reply = Nil) =>
                /\ out'.ret = Bool(FALSE)
                /\ out'.events = << >>
                /\ UNCHANGED <<redis, stats, hist>>]_vars

\* a set with xx of a key that has no record has returned false: there is
\* no record, no metadata, and nothing was counted
C31_Witness ==
    /\ out.op = "set" /\ out.ret = Bool(FALSE) /\ out.events = << >>
    /\ redis = << >> /\ stats = ZeroStats /\ calls = 1

\* ------------------------------------------------------------------ C32
\* where the task with this id stands in the queue
PositionOf(q, id) == CHOOSE i \in DOMAIN q : q[i].id = id
QueuedIds(q) == {q[i].id : i \in DOMAIN q}

\* C32: queueing puts a task behind every task already queued; no step
\* changes the order of two queued tasks of equal effective priority; and
\* the task a drain step starts has no task of the same effective priority
\* in front of it. So tasks of equal effective priority are drained in the
\* order in which they were queued.
C32_TiesDrainInQueueOrder ==
    [][/\ (out'.op = "queue" /\ out'.ret = "true") =>
            /\ Len(warmupQueue') = Len(warmupQueue) + 1
            /\ SubSeq(warmupQueue', 1, Len(warmupQueue)) = warmupQueue
            /\ warmupQueue'[Len(warmupQueue')].id = out'.id
       /\ \A x, y \in QueuedIds(warmupQueue) \cap QueuedIds(warmupQueue') :
            (/\ PositionOf(warmupQueue, x) < PositionOf(warmupQueue, y)
             /\ EffectivePriority(warmupQueue[PositionOf(warmupQueue, x)])
                    = EffectivePriority(warmupQueue[PositionOf(warmupQueue, y)])) =>
                PositionOf(warmupQueue', x) < PositionOf(warmupQueue', y)
       /\ IsDrainStep =>
            LET i == PositionOf(warmupQueue, out'.id) IN
            \A j \in 1..(i - 1) :
                EffectivePriority(warmupQueue[j]) # EffectivePriority(warmupQueue[i])]_vars

\* a drain step has started one of two queued tasks of the highest priority
\* there is and left the other one queued
C32_Witness ==
    /\ out.op = "tick" /\ out.ret = "started"
    /\ Len(warmupQueue) = 1
    /\ EffectivePriority(warmupQueue[1]) = MaxPriority

\* ------------------------------------------------------------------ C33
\* C33: a queueWarmupTask(id, {priority: p}) that queues appends a task
\* that is the registered one but for its priority, which is p, or the
\* registered priority when no p is given; the registry is left as it was.
C33_QueueCopiesWithOverride ==
    [][\A taskId \in TaskIds, priority \in OptPriorities :
        (/\ QueueWarmupTask(taskId, priority)
         /\ taskId \in DOMAIN warmupTasks
         /\ ~InQueue(taskId)) =>
            LET queued == warmupQueue'[Len(warmupQueue')]
                task == warmupTasks[taskId]
            IN  /\ queued.id = taskId
                /\ queued.timeout = task.timeout
                /\ queued.priority = IF priority = NoPriority THEN task.priority ELSE priority
                /\ UNCHANGED warmupTasks]_vars

\* a task has just been queued with a priority that is not the one it is
\* registered with
C33_Witness ==
    /\ out.op = "queue" /\ out.ret = "true"
    /\ warmupQueue[Len(warmupQueue)].id = out.id
    /\ warmupQueue[Len(warmupQueue)].priority # warmupTasks[out.id].priority

\* ------------------------------------------------------------------ C34
\* in store r, m is the metadata key of a default-namespace entry whose
\* metadata lists a tag of T
TaggedMeta(r, m, T) ==
    /\ m \in DOMAIN r /\ r[m].kind = "hash"
    /\ InDefaultNamespace(m) /\ m[Len(m)] = "meta"
    /\ r[m].fields.tags \cap T # {}

\* C34: when a clear({tags: T}) that no other operation overlapped returns,
\* every store key it removed is the metadata key of a default-namespace
\* entry whose metadata lists a tag of T, or the primary key of that entry;
\* and when there is no such entry it returns 0 and the store is unchanged.
C34_ClearByTagsFrame ==
    [][\A id \in Returning :
        LET o == ops[id]
            T == o.opt.tags.tags
        IN  (IsClearByTags(o) /\ o.solo /\ out'.ret.t # "throw") =>
              /\ \A k \in DOMAIN o.pre \ DOMAIN redis' :
                    \/ TaggedMeta(o.pre, k, T)
                    \/ TaggedMeta(o.pre, MetaKeyOf(k), T)
              /\ \A k \in DOMAIN o.pre \cap DOMAIN redis' : redis'[k] = o.pre[k]
              /\ (\A m \in DOMAIN o.pre : ~TaggedMeta(o.pre, m, T)) =>
                    out'.ret = Num(0) /\ redis' = o.pre]_vars

\* ------------------------------------------------------------------ C35
\* the clear({tags: T}) calls that issue their batched DEL in this step
Deleting == {id \in DOMAIN ops \cap DOMAIN ops' :
                ops[id].pc # "tagdel" /\ ops'[id].pc = "tagdel"}

\* the tag list the metadata record of primary key k holds in store r
CurrentTags(r, k) ==
    IF MetaKeyOf(k) \in DOMAIN r /\ r[MetaKeyOf(k)].kind = "hash"
    THEN r[MetaKeyOf(k)].fields.tags ELSE {}

\* C35: the batched DEL of a clear({tags: T}) removes a primary record only
\* if the tag list the entry has at that moment holds a tag of T, whatever
\* sets ran between the scan and the DEL.
C35_ClearByTagsRechecks ==
    [][\A id \in Deleting :
        \A k \in DOMAIN redis \ DOMAIN redis' :
            redis[k].kind = "string" =>
                CurrentTags(redis, k) \cap ops[id].opt.tags.tags # {}]_vars

\* ------------------------------------------------------------------ C36
\* C36: with every call awaited before the next, a get of a key that was
\* set successfully twice or more returns the value of the last of these
\* sets, whatever the tags and the sizes of the values set.
C36_LastWriteWins ==
    [][\A id \in Returning :
        LET o == ops[id]
            k == CacheKeyOf(o)
        IN  (o.op = "get" /\ o.preStats.sets >= 2 /\ k \in DOMAIN o.pre) =>
                out'.ret = hist[k].value]_vars

\* ------------------------------------------------------------------ C37
\* C37: every task in the pending queue has an id that is registered.
C37_QueuedAreRegistered ==
    \A i \in DOMAIN warmupQueue : warmupQueue[i].id \in DOMAIN warmupTasks

\* two registered tasks have been queued and both wait in the queue
C37_Witness ==
    /\ out.op = "queue" /\ out.ret = "true"
    /\ Len(warmupQueue) = 2
    /\ QueuedIds(warmupQueue) = DOMAIN warmupTasks

\* ------------------------------------------------------------------ C38
\* C38: registering a task again leaves the pending queue as it is; a drain
\* step executes the task as the queue holds it, and runWarmupTask(id)
\* executes the task as the registry holds it.
C38_QueueHoldsSnapshot ==
    [][/\ out'.op = "register" => UNCHANGED warmupQueue
       /\ IsDrainStep =>
            LET queued == warmupQueue[PositionOf(warmupQueue, out'.id)] IN
            execs' = execs (+) SetToBag({ExecStart(queued, "drain")})
       /\ (out'.op = "run" /\ out'.ret = "pending") =>
            execs' = execs (+) SetToBag({ExecStart(warmupTasks[out'.id], "run")})]_vars

\* a drain step has started a queued task the way it was defined when it
\* was queued, which is not the way the registry defines it now
C38_Witness ==
    /\ out.op = "tick" /\ out.ret = "started" /\ out.id \in DOMAIN warmupTasks
    /\ \E e \in Execs :
          /\ e.id = out.id /\ e.origin = "drain" /\ e.emitted = <<"started">>
          /\ e.timer # ExecStart(warmupTasks[out.id], "drain").timer

\* ------------------------------------------------------------------ C39
\* C39: neither the call of runWarmupTask nor the end of the execution it
\* started changes the pending queue or the reentrancy flag of the drain: a
\* queued task that is run directly is still queued.
C39_RunLeavesQueue ==
    [][out'.op \in {"run", "run done"} =>
            UNCHANGED <<warmupQueue, warmupTasks, isProcessingWarmup>>]_vars

\* a queued task has been run directly and is still in the queue
C39_Witness ==
    /\ out.op = "run" /\ out.ret = "pending" /\ InQueue(out.id)
    /\ \E e \in Execs : e.id = out.id /\ e.origin = "run"

\* ------------------------------------------------------------------ C40
\* the step just taken started the task with this id in a drain, or it
\* unregistered it
LeftQueue(id) ==
    /\ out.id = id
    /\ \/ out.op = "tick" /\ out.ret = "started"
       \/ out.op = "unregister" /\ out.ret = "true"

====
